---- MODULE Spec2Model ----
(***************************************************************************)
(* Write-triggered plugin handlers of the Automata Controls Nexus BMS:     *)
(* the alert engine (threshold evaluation, cooldown gate, notification     *)
(* dispatch, alert history), and the entry points of the predictive        *)
(* maintenance and dual-run HVAC plugins.                                  *)
(*                                                                         *)
(* Python values are modelled as tagged records (None, number, string) so  *)
(* that truthiness, isinstance and dict.get behave as in the source.       *)
(* Numbers are integers: every threshold of the source is integer-valued   *)
(* and the strict comparisons are exercised at v = threshold and           *)
(* v = threshold + 1.                                                      *)
(***************************************************************************)
EXTENDS Integers, Sequences, FiniteSets, TLC

VARIABLES
    now,               \* time.time(), in seconds since the start of the run
    environ,           \* os.environ: the names of the variables that are set
    last_alert_times,  \* module global: cooldown key -> time of last fire
    maintenance,       \* the predictive-maintenance module's globals
    pc,                \* "idle" | "running" | "returned" | "raised"
    handler,           \* which plugin's process_writes is running
    cfg,               \* alert_config of the running call (keys that are set)
    batchesLeft,       \* table batches of the call not yet visited
    rowsLeft,          \* rows of the current batch not yet visited
    table,             \* table_name of the current batch
    last,              \* what the step just taken did to its row (NoRow: no row step)
    fired,             \* observer: <<subject, kind>> -> time it was last dispatched
    arrivals,          \* observer: equipment id -> the scores of its analysed readings, in order
    hostlog            \* error lines the entry point itself logged in this call

vars == <<now, environ, last_alert_times, maintenance, pc, handler, cfg, batchesLeft,
          rowsLeft, table, last, fired, arrivals, hostlog>>

-----------------------------------------------------------------------------
(* Bounds of the exploration *)

MaxTime == 300
MaxBatches == 2
MaxRows == 1
MaxHistory == 2
MaxCommands == 2
MaxArrivals == 102

-----------------------------------------------------------------------------
(* Python values *)

NoneV == [t |-> "none", n |-> 0, s |-> ""]
Num(n) == [t |-> "num", n |-> n, s |-> ""]
Str(s) == [t |-> "str", n |-> 0, s |-> s]

\* bool(v)
Truthy(v) == IF v.t = "num" THEN v.n # 0 ELSE IF v.t = "str" THEN v.s # "" ELSE FALSE

\* isinstance(v, (int, float))
IsNumber(v) == v.t = "num"

\* str(v), as an f-string renders it
Format(v) == IF v.t = "str" THEN v.s ELSE IF v.t = "num" THEN ToString(v.n) ELSE "None"

\* d.get(k, default) on a dict modelled as a function
DictGet(d, k, default) == IF k \in DOMAIN d THEN d[k] ELSE default

\* d.update(e)
DictUpdate(d, e) == [k \in (DOMAIN d) \cup (DOMAIN e) |-> IF k \in DOMAIN e THEN e[k] ELSE d[k]]

\* the empty dict
EmptyDict == <<>>

\* sub in s
Contains(sub, s) == \E i \in 1..(Len(s) - Len(sub) + 1) : SubSeq(s, i, i + Len(sub) - 1) = sub

UpperLetters == "ABCDEFGHIJKLMNOPQRSTUVWXYZ"
LowerLetters == "abcdefghijklmnopqrstuvwxyz"

LowerChar(c) ==
    IF \E i \in 1..26 : SubSeq(UpperLetters, i, i) = c
    THEN LET i == CHOOSE j \in 1..26 : SubSeq(UpperLetters, j, j) = c
         IN SubSeq(LowerLetters, i, i)
    ELSE c

\* s.lower()
RECURSIVE Lower(_)
Lower(s) == IF s = "" THEN "" ELSE LowerChar(SubSeq(s, 1, 1)) \o Lower(SubSeq(s, 2, Len(s)))

-----------------------------------------------------------------------------
(* Alert engine: configuration *)

retry_attempts == 3
retry_backoff == 2
alert_cooldown_minutes == 5

EQUIPMENT_ALERT_THRESHOLDS ==
    ("boiler" :> [critical_temp |-> 200, high_temp |-> 180, low_efficiency |-> 70, high_pressure |-> 150])
    @@ ("chiller" :> [critical_temp |-> 55, high_temp |-> 50, low_efficiency |-> 65, low_refrigerant |-> 20])
    @@ ("air-handler" :> [critical_temp |-> 90, high_temp |-> 85, low_airflow |-> 500, filter_pressure_diff |-> 2])
    @@ ("pump" :> [critical_temp |-> 130, high_temp |-> 120, low_pressure |-> 10, high_vibration |-> 5])
    @@ ("fancoil" :> [critical_temp |-> 95, high_temp |-> 90, low_efficiency |-> 60])

determine_equipment_type(equipment_id) ==
    LET equipment_id_lower == Lower(equipment_id)
    IN IF Contains("boiler", equipment_id_lower) THEN "boiler"
       ELSE IF Contains("chiller", equipment_id_lower) THEN "chiller"
       ELSE IF Contains("pump", equipment_id_lower) THEN "pump"
       ELSE IF Contains("ahu", equipment_id_lower) \/ Contains("air", equipment_id_lower) THEN "air-handler"
       ELSE IF Contains("fancoil", equipment_id_lower) \/ Contains("fan", equipment_id_lower) THEN "fancoil"
       ELSE IF Contains("geo", equipment_id_lower) THEN "geo"
       ELSE "unknown"

-----------------------------------------------------------------------------
(* Observable events of one row's processing *)

ErrorLog(who) == [e |-> "log", level |-> "error", who |-> who]
WarningLog(who) == [e |-> "log", level |-> "warning", who |-> who]
InfoLog(who) == [e |-> "log", level |-> "info", who |-> who]
Post(ch, outcome) == [e |-> "post", ch |-> ch, outcome |-> outcome]
Sleep(d) == [e |-> "sleep", d |-> d]
\* influxdb3_local.write(rec); ok = FALSE when the host handle raised
Write(rec, ok) == [e |-> "write", rec |-> rec, ok |-> ok]

-----------------------------------------------------------------------------
(* Alert engine: the three evaluators.  Each returns the candidate (NoneV  *)
(* for None) and the warning/error lines it logged.  A row is              *)
(* [mapping, items]: mapping is FALSE for a row that is not a dict, on     *)
(* which row.get raises.                                                   *)

NoCandidate(ev) == [alert |-> NoneV, ev |-> ev]

\* thresholds.get(name, 999)
ThresholdGet(thresholds, name) == DictGet(thresholds, name, 999)

\* alerts.sort(key=lambda x: 0 if x["severity"] == "CRITICAL" else 1): stable
SortBySeverity(alerts) ==
    SelectSeq(alerts, LAMBDA a : a.severity = "CRITICAL")
    \o SelectSeq(alerts, LAMBDA a : a.severity # "CRITICAL")

\* variant: the comparisons admit equality
TemperatureAlerts_nonStrict(temperature, thresholds) ==
    IF temperature >= ThresholdGet(thresholds, "critical_temp")
    THEN IF "critical_temp" \in DOMAIN thresholds
         THEN [raised |-> FALSE,
               alerts |-> << [severity |-> "CRITICAL", type |-> "HIGH_TEMPERATURE",
                              value |-> temperature,
                              threshold |-> thresholds["critical_temp"]] >>]
         ELSE [raised |-> TRUE, alerts |-> << >>]
    ELSE IF temperature >= ThresholdGet(thresholds, "high_temp")
    THEN IF "high_temp" \in DOMAIN thresholds
         THEN [raised |-> FALSE,
               alerts |-> << [severity |-> "WARNING", type |-> "HIGH_TEMPERATURE",
                              value |-> temperature,
                              threshold |-> thresholds["high_temp"]] >>]
         ELSE [raised |-> TRUE, alerts |-> << >>]
    ELSE [raised |-> FALSE, alerts |-> << >>]

\* variant: a missing threshold is reported as the default it was compared with
TemperatureAlerts_defaulted(temperature, thresholds) ==
    IF temperature > ThresholdGet(thresholds, "critical_temp")
    THEN [raised |-> FALSE,
          alerts |-> << [severity |-> "CRITICAL", type |-> "HIGH_TEMPERATURE",
                         value |-> temperature,
                         threshold |-> ThresholdGet(thresholds, "critical_temp")] >>]
    ELSE IF temperature > ThresholdGet(thresholds, "high_temp")
    THEN [raised |-> FALSE,
          alerts |-> << [severity |-> "WARNING", type |-> "HIGH_TEMPERATURE",
                         value |-> temperature,
                         threshold |-> ThresholdGet(thresholds, "high_temp")] >>]
    ELSE [raised |-> FALSE, alerts |-> << >>]

\* lines 165-182: the candidates appended for one numeric temperature;
\* raised: thresholds['...'] raises KeyError when the compared default 999 was used
TemperatureAlerts(temperature, thresholds) ==
    IF temperature > ThresholdGet(thresholds, "critical_temp")
    THEN IF "critical_temp" \in DOMAIN thresholds
         THEN [raised |-> FALSE,
               alerts |-> << [severity |-> "CRITICAL", type |-> "HIGH_TEMPERATURE",
                              value |-> temperature,
                              threshold |-> thresholds["critical_temp"]] >>]
         ELSE [raised |-> TRUE, alerts |-> << >>]
    ELSE IF temperature > ThresholdGet(thresholds, "high_temp")
    THEN IF "high_temp" \in DOMAIN thresholds
         THEN [raised |-> FALSE,
               alerts |-> << [severity |-> "WARNING", type |-> "HIGH_TEMPERATURE",
                              value |-> temperature,
                              threshold |-> thresholds["high_temp"]] >>]
         ELSE [raised |-> TRUE, alerts |-> << >>]
    ELSE [raised |-> FALSE, alerts |-> << >>]

process_equipment_alerts(row) ==
    IF ~row.mapping
    THEN NoCandidate(<< ErrorLog("process_equipment_alerts") >>)
    ELSE
    LET equipment_id == DictGet(row.items, "equipmentId", NoneV)
        location_id == DictGet(row.items, "location_id", NoneV)
    IN  IF ~Truthy(equipment_id) \/ ~Truthy(location_id)
        THEN NoCandidate(<< >>)
        ELSE IF equipment_id.t # "str"
        THEN \* equipment_id.lower() raises AttributeError
             NoCandidate(<< ErrorLog("process_equipment_alerts") >>)
        ELSE
        LET equipment_type == determine_equipment_type(equipment_id.s)
            thresholds == DictGet(EQUIPMENT_ALERT_THRESHOLDS, equipment_type, EmptyDict)
            temperature == DictGet(row.items, "temperature",
                               DictGet(row.items, "Water_Temp",
                                   DictGet(row.items, "Supply_Temp", Num(0))))
            found == IF Truthy(temperature) /\ IsNumber(temperature)
                     THEN TemperatureAlerts(temperature.n, thresholds)
                     ELSE [raised |-> FALSE, alerts |-> << >>]
        IN  IF found.raised
            THEN NoCandidate(<< ErrorLog("process_equipment_alerts") >>)
            ELSE IF found.alerts # << >>
            THEN [alert |-> DictUpdate(SortBySeverity(found.alerts)[1],
                                [equipment_id |-> equipment_id,
                                 location_id |-> location_id,
                                 equipment_type |-> equipment_type,
                                 source |-> "equipment_monitoring"]),
                  ev |-> << >>]
            ELSE NoCandidate(<< >>)

\* variant: a score equal to the poor threshold is a warning
process_health_alerts_inclusive(row) ==
    IF ~row.mapping
    THEN NoCandidate(<< ErrorLog("process_health_alerts") >>)
    ELSE
    LET equipment_id == DictGet(row.items, "equipment_id", NoneV)
        location_id == DictGet(row.items, "location_id", NoneV)
        health_score == DictGet(row.items, "health_score", Num(100))
        health_status == DictGet(row.items, "health_status", Str("unknown"))
    IN  IF ~Truthy(equipment_id) \/ ~IsNumber(health_score)
        THEN NoCandidate(<< >>)
        ELSE IF health_score.n < 20
        THEN [alert |-> [equipment_id |-> equipment_id, location_id |-> location_id,
                         severity |-> "CRITICAL", type |-> "EQUIPMENT_HEALTH_CRITICAL",
                         value |-> health_score.n, threshold |-> 20,
                         health_status |-> health_status,
                         source |-> "predictive_maintenance"],
              ev |-> << >>]
        ELSE IF health_score.n <= 40
        THEN [alert |-> [equipment_id |-> equipment_id, location_id |-> location_id,
                         severity |-> "WARNING", type |-> "EQUIPMENT_HEALTH_LOW",
                         value |-> health_score.n, threshold |-> 40,
                         health_status |-> health_status,
                         source |-> "predictive_maintenance"],
              ev |-> << >>]
        ELSE NoCandidate(<< >>)

\* lines 210-255
process_health_alerts(row) ==
    IF ~row.mapping
    THEN NoCandidate(<< ErrorLog("process_health_alerts") >>)
    ELSE
    LET equipment_id == DictGet(row.items, "equipment_id", NoneV)
        location_id == DictGet(row.items, "location_id", NoneV)
        health_score == DictGet(row.items, "health_score", Num(100))
        health_status == DictGet(row.items, "health_status", Str("unknown"))
    IN  IF ~Truthy(equipment_id) \/ ~IsNumber(health_score)
        THEN NoCandidate(<< >>)
        ELSE IF health_score.n < 20
        THEN [alert |-> [equipment_id |-> equipment_id, location_id |-> location_id,
                         severity |-> "CRITICAL", type |-> "EQUIPMENT_HEALTH_CRITICAL",
                         value |-> health_score.n, threshold |-> 20,
                         health_status |-> health_status,
                         source |-> "predictive_maintenance"],
              ev |-> << >>]
        ELSE IF health_score.n < 40
        THEN [alert |-> [equipment_id |-> equipment_id, location_id |-> location_id,
                         severity |-> "WARNING", type |-> "EQUIPMENT_HEALTH_LOW",
                         value |-> health_score.n, threshold |-> 40,
                         health_status |-> health_status,
                         source |-> "predictive_maintenance"],
              ev |-> << >>]
        ELSE NoCandidate(<< >>)

process_energy_alerts(row) ==
    IF ~row.mapping
    THEN NoCandidate(<< ErrorLog("process_energy_alerts") >>)
    ELSE
    LET location_id == DictGet(row.items, "location_id", NoneV)
        total_power_kw == DictGet(row.items, "total_power_kw", Num(0))
        hourly_cost == DictGet(row.items, "hourly_cost", Num(0))
        average_efficiency == DictGet(row.items, "average_efficiency", Num(100))
    IN  IF ~Truthy(location_id)
        THEN NoCandidate(<< >>)
        ELSE IF IsNumber(total_power_kw) /\ total_power_kw.n > 500
        THEN IF ~IsNumber(hourly_cost)
             THEN \* f"{hourly_cost:.2f}" raises on a value that is not a number
                  NoCandidate(<< ErrorLog("process_energy_alerts") >>)
             ELSE [alert |-> [location_id |-> location_id,
                              severity |-> "WARNING", type |-> "HIGH_ENERGY_CONSUMPTION",
                              value |-> total_power_kw.n, threshold |-> 500,
                              hourly_cost |-> hourly_cost,
                              source |-> "energy_optimization"],
                   ev |-> << >>]
        ELSE IF IsNumber(average_efficiency) /\ average_efficiency.n < 70
        THEN [alert |-> [location_id |-> location_id,
                         severity |-> "WARNING", type |-> "LOW_ENERGY_EFFICIENCY",
                         value |-> average_efficiency.n, threshold |-> 70,
                         total_power_kw |-> total_power_kw,
                         source |-> "energy_optimization"],
              ev |-> << >>]
        ELSE NoCandidate(<< >>)

-----------------------------------------------------------------------------
(* Alert engine: notification channels.  A channel call returns            *)
(* [ret, raised, ev]: its return value, whether an exception left it, and  *)
(* the HTTP posts, sleeps, host writes and warning/error lines it made.    *)
(* The outcome of each HTTP attempt and of the host write is an input.     *)

\* "200": HTTP 200 whose JSON body is an object with a messageId;
\* "200-noid": HTTP 200 whose JSON body is an object without one;
\* "500": another status; "exc": the request, or the decoding of a 200 body, raised
ApiOutcomes == {"200", "200-noid", "500", "exc"}

\* line 407: response.status_code == 200, and lines 408-411 do not raise
ApiAccepted(o) == o \in {"200", "200-noid"}
WebhookOutcomes == {"200", "204", "exc"}
WriteOutcomes == {"ok", "exc"}

Skipped == [ret |-> FALSE, raised |-> FALSE, ev |-> << >>]

\* alert_config.get(key) or os.getenv(envname)
Configured(config, env, key, envname) == key \in config \/ envname \in env

\* retry_backoff ** attempt
Backoff(attempt) == retry_backoff ^ attempt

\* lines 398-425: the retry loop from attempt (0-based) on; outs[attempt + 1]
\* is what the HTTP call of that attempt does
RECURSIVE ResendAttempts(_, _)
ResendAttempts(attempt, outs) ==
    IF attempt >= retry_attempts
    THEN [ret |-> FALSE, raised |-> FALSE, ev |-> << >>]
    ELSE LET o == outs[attempt + 1]
             rest == ResendAttempts(attempt + 1, outs)
         IN IF ApiAccepted(o)
            THEN [ret |-> TRUE, raised |-> FALSE, ev |-> << Post("api", o) >>]
            ELSE IF o = "exc"
            THEN [rest EXCEPT !.ev =
                     << Post("api", o), ErrorLog("send_resend_notification") >>
                     \o (IF attempt < retry_attempts - 1
                         THEN << Sleep(Backoff(attempt)) >> ELSE << >>)
                     \o rest.ev]
            ELSE [rest EXCEPT !.ev =
                     << Post("api", o), ErrorLog("send_resend_notification") >> \o rest.ev]

send_resend_notification(alert, config, env, outs) ==
    IF ~Configured(config, env, "recipient_email", "DEFAULT_RECIPIENT")
    THEN [ret |-> FALSE, raised |-> FALSE, ev |-> << WarningLog("send_resend_notification") >>]
    ELSE ResendAttempts(0, outs)

\* variant: the exception of the HTTP call leaves the function
send_slack_notification_raising(alert, o) ==
    IF o = "200"
    THEN [ret |-> TRUE, raised |-> FALSE, ev |-> << Post("slack", o) >>]
    ELSE [ret |-> FALSE, raised |-> (o = "exc"), ev |-> << Post("slack", o) >>]

send_slack_notification(alert, o) ==
    IF o = "200"
    THEN [ret |-> TRUE, raised |-> FALSE, ev |-> << Post("slack", o) >>]
    ELSE [ret |-> FALSE, raised |-> FALSE,
          ev |-> << Post("slack", o), ErrorLog("send_slack_notification") >>]

send_discord_notification(alert, o) ==
    IF o = "204"
    THEN [ret |-> TRUE, raised |-> FALSE, ev |-> << Post("discord", o) >>]
    ELSE [ret |-> FALSE, raised |-> FALSE,
          ev |-> << Post("discord", o), ErrorLog("send_discord_notification") >>]

\* lines 547-558: the tags of the alert_history record
HistoryTags(alert) ==
    LET keep == {"equipment_id", "location_id", "equipment_type"} \cap DOMAIN alert
    IN DictUpdate([alert_type |-> Str(alert.type), severity |-> Str(alert.severity),
                   source |-> Str(alert.source)],
                  [k \in keep |-> IF k = "equipment_type" THEN Str(alert[k]) ELSE alert[k]])

\* variant: the exception of the host write leaves the function
write_alert_history_raising(alert, o) ==
    LET rec == [measurement |-> "alert_history", tags |-> HistoryTags(alert),
                value |-> alert.value, threshold |-> alert.threshold]
    IN IF o = "ok"
       THEN [ret |-> FALSE, raised |-> FALSE, ev |-> << Write(rec, TRUE) >>]
       ELSE [ret |-> FALSE, raised |-> TRUE, ev |-> << Write(rec, FALSE) >>]

\* o = "exc": influxdb3_local.write raises
write_alert_history(alert, o) ==
    LET rec == [measurement |-> "alert_history", tags |-> HistoryTags(alert),
                value |-> alert.value, threshold |-> alert.threshold]
    IN IF o = "ok"
       THEN [ret |-> FALSE, raised |-> FALSE, ev |-> << Write(rec, TRUE) >>]
       ELSE [ret |-> FALSE, raised |-> FALSE,
             ev |-> << Write(rec, FALSE), ErrorLog("write_alert_history") >>]

-----------------------------------------------------------------------------
(* Alert engine: send_alert_notification *)

\* variant: the severity is part of the key
AlertKey_withSeverity(alert) ==
    Format(DictGet(alert, "equipment_id", DictGet(alert, "location_id", Str("unknown"))))
    \o "_" \o alert.type \o "_" \o alert.severity

\* line 310
AlertKey(alert) ==
    Format(DictGet(alert, "equipment_id", DictGet(alert, "location_id", Str("unknown"))))
    \o "_" \o alert.type

\* variant: a candidate exactly one window after the last fire is suppressed
InCooldown_inclusive(alert_key, current_time, times) ==
    /\ alert_key \in DOMAIN times
    /\ current_time - times[alert_key] <= alert_cooldown_minutes * 60

\* lines 313-319: the candidate is suppressed
InCooldown(alert_key, current_time, times) ==
    /\ alert_key \in DOMAIN times
    /\ current_time - times[alert_key] < alert_cooldown_minutes * 60

\* variant: the fire is not recorded
RecordFire_forgetful(alert_key, current_time, times) == times

\* line 322
RecordFire(alert_key, current_time, times) ==
    [k \in (DOMAIN times) \cup {alert_key} |-> IF k = alert_key THEN current_time ELSE times[k]]

\* no channel returned True
NoChannel == [api |-> FALSE, slack |-> FALSE, discord |-> FALSE]

\* variant: only the API channel's result is reported
Dispatch_apiOnly(alert, config, env, outs) ==
    LET api == send_resend_notification(alert, config, env, outs.api)
        slack == IF ~api.raised /\ Configured(config, env, "slack_webhook_url", "SLACK_WEBHOOK_URL")
                 THEN send_slack_notification(alert, outs.slack) ELSE Skipped
        discord == IF ~api.raised /\ ~slack.raised
                      /\ Configured(config, env, "discord_webhook_url", "DISCORD_WEBHOOK_URL")
                   THEN send_discord_notification(alert, outs.discord) ELSE Skipped
        history == IF ~api.raised /\ ~slack.raised /\ ~discord.raised /\ "alerts_db" \in config
                   THEN write_alert_history(alert, outs.write) ELSE Skipped
    IN [ret |-> api.ret,
        raised |-> api.raised \/ slack.raised \/ discord.raised \/ history.raised,
        chan |-> [api |-> api.ret, slack |-> slack.ret, discord |-> discord.ret],
        ev |-> api.ev \o slack.ev \o discord.ev \o history.ev]

\* variant: the history is written only for a delivered notification
Dispatch_historyOnSuccess(alert, config, env, outs) ==
    LET api == send_resend_notification(alert, config, env, outs.api)
        slack == IF ~api.raised /\ Configured(config, env, "slack_webhook_url", "SLACK_WEBHOOK_URL")
                 THEN send_slack_notification(alert, outs.slack) ELSE Skipped
        discord == IF ~api.raised /\ ~slack.raised
                      /\ Configured(config, env, "discord_webhook_url", "DISCORD_WEBHOOK_URL")
                   THEN send_discord_notification(alert, outs.discord) ELSE Skipped
        history == IF ~api.raised /\ ~slack.raised /\ ~discord.raised /\ "alerts_db" \in config
                      /\ (api.ret \/ slack.ret \/ discord.ret)
                   THEN write_alert_history(alert, outs.write) ELSE Skipped
    IN [ret |-> api.ret \/ slack.ret \/ discord.ret,
        raised |-> api.raised \/ slack.raised \/ discord.raised \/ history.raised,
        chan |-> [api |-> api.ret, slack |-> slack.ret, discord |-> discord.ret],
        ev |-> api.ev \o slack.ev \o discord.ev \o history.ev]

\* lines 324-347: the channels in source order, then the history write; a call
\* that raises skips what follows it
Dispatch(alert, config, env, outs) ==
    LET api == send_resend_notification(alert, config, env, outs.api)
        slack == IF ~api.raised /\ Configured(config, env, "slack_webhook_url", "SLACK_WEBHOOK_URL")
                 THEN send_slack_notification(alert, outs.slack) ELSE Skipped
        discord == IF ~api.raised /\ ~slack.raised
                      /\ Configured(config, env, "discord_webhook_url", "DISCORD_WEBHOOK_URL")
                   THEN send_discord_notification(alert, outs.discord) ELSE Skipped
        history == IF ~api.raised /\ ~slack.raised /\ ~discord.raised /\ "alerts_db" \in config
                   THEN write_alert_history(alert, outs.write) ELSE Skipped
    IN [ret |-> api.ret \/ slack.ret \/ discord.ret,
        raised |-> api.raised \/ slack.raised \/ discord.raised \/ history.raised,
        chan |-> [api |-> api.ret, slack |-> slack.ret, discord |-> discord.ret],
        ev |-> api.ev \o slack.ev \o discord.ev \o history.ev]

\* variant: the channels are called before the cooldown is looked at
send_alert_notification_dispatchFirst(alert, config, env, current_time, times, outs) ==
    LET alert_key == AlertKey(alert)
        d == Dispatch(alert, config, env, outs)
    IN IF InCooldown(alert_key, current_time, times)
       THEN [ret |-> FALSE, passed |-> FALSE, key |-> alert_key, times |-> times,
             chan |-> NoChannel, ev |-> d.ev \o << InfoLog("cooldown") >>]
       ELSE [ret |-> IF d.raised THEN FALSE ELSE d.ret,
             passed |-> TRUE, key |-> alert_key, chan |-> d.chan,
             times |-> RecordFire(alert_key, current_time, times),
             ev |-> IF d.raised
                    THEN d.ev \o << ErrorLog("send_alert_notification") >>
                    ELSE d.ev]

\* variant: the fire is recorded only when a channel delivered
send_alert_notification_recordOnSuccess(alert, config, env, current_time, times, outs) ==
    LET alert_key == AlertKey(alert)
    IN IF InCooldown(alert_key, current_time, times)
       THEN [ret |-> FALSE, passed |-> FALSE, key |-> alert_key, times |-> times,
             chan |-> NoChannel, ev |-> << InfoLog("cooldown") >>]
       ELSE LET d == Dispatch(alert, config, env, outs)
            IN [ret |-> IF d.raised THEN FALSE ELSE d.ret,
                passed |-> TRUE, key |-> alert_key, chan |-> d.chan,
                times |-> IF d.ret /\ ~d.raised
                          THEN RecordFire(alert_key, current_time, times) ELSE times,
                ev |-> IF d.raised
                       THEN d.ev \o << ErrorLog("send_alert_notification") >>
                       ELSE d.ev]

\* variant: a suppressed candidate restarts the window of its key
send_alert_notification_refreshing(alert, config, env, current_time, times, outs) ==
    LET alert_key == AlertKey(alert)
    IN IF InCooldown(alert_key, current_time, times)
       THEN [ret |-> FALSE, passed |-> FALSE, key |-> alert_key,
             times |-> RecordFire(alert_key, current_time, times),
             chan |-> NoChannel, ev |-> << InfoLog("cooldown") >>]
       ELSE LET d == Dispatch(alert, config, env, outs)
            IN [ret |-> IF d.raised THEN FALSE ELSE d.ret,
                passed |-> TRUE, key |-> alert_key, chan |-> d.chan,
                times |-> RecordFire(alert_key, current_time, times),
                ev |-> IF d.raised
                       THEN d.ev \o << ErrorLog("send_alert_notification") >>
                       ELSE d.ev]

\* lines 304-351; returns the value, the events, the new cooldown map,
\* whether the candidate got past the gate and what each channel returned
send_alert_notification(alert, config, env, current_time, times, outs) ==
    LET alert_key == AlertKey(alert)
    IN IF InCooldown(alert_key, current_time, times)
       THEN [ret |-> FALSE, passed |-> FALSE, key |-> alert_key, times |-> times,
             chan |-> NoChannel, ev |-> << InfoLog("cooldown") >>]
       ELSE LET d == Dispatch(alert, config, env, outs)
            IN [ret |-> IF d.raised THEN FALSE ELSE d.ret,
                passed |-> TRUE, key |-> alert_key, chan |-> d.chan,
                times |-> RecordFire(alert_key, current_time, times),
                ev |-> IF d.raised
                       THEN d.ev \o << ErrorLog("send_alert_notification") >>
                       ELSE d.ev]

-----------------------------------------------------------------------------
(* Inputs of the exploration *)

\* the instants at which the clock is read: the multiples of the cooldown
\* window and the second before each
Instants == {t \in 0..MaxTime : t % (alert_cooldown_minutes * 60) \in {0, alert_cooldown_minutes * 60 - 1}}

Row(items) == [mapping |-> TRUE, items |-> items]
NotADict == [mapping |-> FALSE, items |-> EmptyDict]

MetricsRows ==
    { Row([equipmentId |-> Str("boiler-3"), location_id |-> Str("4"), temperature |-> Num(v)]) :
        v \in {180, 200, 201} }
    \cup { Row([location_id |-> Str("4"), temperature |-> Num(201)]),
           Row([equipmentId |-> Num(7), location_id |-> Str("4"), temperature |-> Num(201)]),
           NotADict }

HealthRows ==
    { Row([equipment_id |-> Str("pump-1"), location_id |-> Str("4"), health_score |-> Num(v)]) :
        v \in {19, 40} }
    \cup { Row([location_id |-> Str("4"), health_score |-> Num(19)]), NotADict }

\* energy rows that yield no candidate
QuietEnergyRows ==
    { Row([location_id |-> Str("4"), total_power_kw |-> Num(500)]),
      Row([location_id |-> Str("4"), total_power_kw |-> Num(501), hourly_cost |-> Str("n/a")]),
      Row([total_power_kw |-> Num(501)]),
      NotADict }

EnergyRows ==
    QuietEnergyRows \cup { Row([location_id |-> Str("4"), total_power_kw |-> Num(501)]) }

AlertTables == {"metrics", "equipment_health", "energy_consumption"}

\* the rows explored with every trigger configuration: two cooldown keys
RowsOf(t) ==
    IF t = "metrics" THEN MetricsRows
    ELSE IF t = "equipment_health" THEN HealthRows
    ELSE QuietEnergyRows

\* the rows explored with the host's configurations: three cooldown keys
HostRowsOf(t) ==
    IF t = "metrics" THEN MetricsRows
    ELSE IF t = "equipment_health" THEN HealthRows
    ELSE EnergyRows

ConfigKeys == {"recipient_email", "slack_webhook_url", "discord_webhook_url", "alerts_db"}
AllConfigs == SUBSET ConfigKeys

\* what the network does at the attempts of the API channel: the outcomes of
\* the attempts made, padded with "200" for the attempts a success cuts off
ApiRuns ==
    {r \in [1..retry_attempts -> ApiOutcomes] :
        \A i \in 1..retry_attempts, j \in 1..retry_attempts : (i < j /\ ApiAccepted(r[i])) => r[j] = "200"}

\* what the network and the host write handle do during one dispatch; a
\* channel that is not configured, or a history that is not, has no outcome
OutcomesFor(config, env) ==
    [api : IF Configured(config, env, "recipient_email", "DEFAULT_RECIPIENT")
           THEN ApiRuns ELSE {[i \in 1..retry_attempts |-> "200"]},
     slack : IF Configured(config, env, "slack_webhook_url", "SLACK_WEBHOOK_URL")
             THEN WebhookOutcomes ELSE {"200"},
     discord : IF Configured(config, env, "discord_webhook_url", "DISCORD_WEBHOOK_URL")
               THEN WebhookOutcomes ELSE {"200"},
     write : IF "alerts_db" \in config THEN WriteOutcomes ELSE {"ok"}]

\* the outcome chosen when nothing is dispatched
FirstChoice == [api |-> [i \in 1..retry_attempts |-> "200"], slack |-> "200",
                discord |-> "200", write |-> "ok"]

\* the trigger arguments explored: every combination with an empty
\* environment, and the empty arguments with a variable set
ConfigsFor(env) == IF env = {} THEN AllConfigs ELSE {{}, {"alerts_db"}}

-----------------------------------------------------------------------------
(* Alert engine: process_writes, one step per table batch and per row *)

NoRow == [kind |-> "none"]

\* lines 131-132: what the entry point does with an exception that reaches it
AlertEngineExcept == [pc |-> "returned", log |-> << ErrorLog("alerts.process_writes") >>]

\* lines 105, 114, 123: the evaluator of the batch's table
Evaluate(t, row) ==
    IF t = "metrics" THEN process_equipment_alerts(row)
    ELSE IF t = "equipment_health" THEN process_health_alerts(row)
    ELSE process_energy_alerts(row)

\* Evaluate, tabulated over the rows explored
Evaluated == [t \in AlertTables |-> [row \in HostRowsOf(t) |-> Evaluate(t, row)]]

\* lines 105-109 (and 114-118, 123-127): one row, whose evaluation gave r;
\* notify if there is a candidate
AlertRowResult(row, r, config, env, current_time, times, outs) ==
    IF r.alert = NoneV
    THEN [kind |-> "alerts", row |-> row, alert |-> NoneV, sent |-> FALSE,
          passed |-> FALSE, ret |-> FALSE, key |-> "", time |-> current_time,
          times |-> times, chan |-> NoChannel, ev |-> r.ev]
    ELSE LET n == send_alert_notification(r.alert, config, env, current_time, times, outs)
         IN [kind |-> "alerts", row |-> row, alert |-> r.alert, sent |-> TRUE,
             passed |-> n.passed, ret |-> n.ret, key |-> n.key, time |-> current_time,
             times |-> n.times, chan |-> n.chan, ev |-> r.ev \o n.ev]

\* the observer's identity of a candidate: its subject (the equipment, or the
\* location when it names no equipment) and its kind
SubjectKind(alert) ==
    << IF "equipment_id" \in DOMAIN alert THEN alert.equipment_id ELSE alert.location_id,
       alert.type >>

\* the observer's record of a candidate that was dispatched at time t
Observe(seen, r, t) ==
    IF r.passed
    THEN [k \in (DOMAIN seen) \cup {SubjectKind(r.alert)} |->
             IF k = SubjectKind(r.alert) THEN t ELSE seen[k]]
    ELSE seen

\* the outcomes to explore for a row: one when nothing is dispatched
OutcomesOf(r, config, env, current_time, times) ==
    IF r.alert = NoneV THEN {FirstChoice}
    ELSE IF InCooldown(AlertKey(r.alert), current_time, times) THEN {FirstChoice}
    ELSE OutcomesFor(config, env)

Init ==
    /\ now = 0
    /\ environ \in {{}, {"SLACK_WEBHOOK_URL"}}
    /\ last_alert_times = EmptyDict
    /\ maintenance = [equipment_history |-> EmptyDict, failure_predictions |-> EmptyDict,
                      maintenance_schedules |-> EmptyDict]
    /\ pc = "idle"
    /\ handler = "none"
    /\ cfg = {}
    /\ batchesLeft = 0
    /\ rowsLeft = 0
    /\ table = ""
    /\ last = NoRow
    /\ fired = EmptyDict
    /\ arrivals = EmptyDict
    /\ hostlog = << >>

\* time passes
Tick ==
    /\ \E t \in Instants : t > now /\ now' = t
    /\ last' = NoRow
    /\ UNCHANGED <<environ, arrivals, maintenance, last_alert_times, pc, handler, cfg, batchesLeft, rowsLeft,
                   table, fired, hostlog>>

\* the host calls process_writes(influxdb3_local, table_batches, args)
AlertsBegin(configs) ==
    /\ pc # "running"
    /\ \E c \in configs, nb \in 0..MaxBatches :
          /\ cfg' = c
          /\ batchesLeft' = nb
    /\ pc' = "running"
    /\ handler' = "alerts"
    /\ rowsLeft' = 0
    /\ table' = ""
    /\ last' = NoRow
    /\ hostlog' = << >>
    /\ UNCHANGED <<now, environ, arrivals, maintenance, last_alert_times, fired>>

\* line 97-99: the next table batch; one that is not a dict, or whose rows
\* are not iterable, raises inside the outer try
AlertsBatch ==
    /\ pc = "running" /\ handler = "alerts"
    /\ rowsLeft = 0 /\ batchesLeft > 0
    /\ batchesLeft' = batchesLeft - 1
    /\ \/ /\ pc' = AlertEngineExcept.pc
          /\ hostlog' = hostlog \o AlertEngineExcept.log
          /\ cfg' = {}
          /\ UNCHANGED <<rowsLeft, table>>
       \/ /\ \E t \in AlertTables \cup {"other"}, n \in 0..MaxRows :
                /\ rowsLeft' = (IF t \in AlertTables THEN n ELSE 0)
                /\ table' = (IF t \in AlertTables /\ n > 0 THEN t ELSE "")
          /\ UNCHANGED <<pc, hostlog, cfg>>
    /\ last' = NoRow
    /\ UNCHANGED <<now, environ, arrivals, maintenance, last_alert_times, handler, fired>>

\* lines 104-109: one row of the current batch
AlertsRow(rows) ==
    /\ pc = "running" /\ handler = "alerts"
    /\ rowsLeft > 0
    /\ \E row \in rows :
          LET c == Evaluated[table][row]
          IN \E outs \in OutcomesOf(c, cfg, environ, now, last_alert_times) :
          LET r == AlertRowResult(row, c, cfg, environ, now, last_alert_times, outs)
          IN /\ last' = DictUpdate(r, [prior |-> fired])
             /\ last_alert_times' = last'.times
             /\ fired' = Observe(fired, last', now)
    /\ rowsLeft' = rowsLeft - 1
    /\ table' = (IF rowsLeft = 1 THEN "" ELSE table)
    /\ UNCHANGED <<now, environ, arrivals, maintenance, pc, handler, cfg, batchesLeft, hostlog>>

\* line 129: every batch was visited
AlertsEnd ==
    /\ pc = "running" /\ handler = "alerts"
    /\ rowsLeft = 0 /\ batchesLeft = 0
    /\ pc' = "returned"
    /\ cfg' = {}
    /\ last' = NoRow
    /\ UNCHANGED <<now, environ, arrivals, maintenance, last_alert_times, handler, batchesLeft, rowsLeft,
                   table, fired, hostlog>>

Next ==
    \/ Tick
    \/ AlertsBegin(ConfigsFor(environ))
    \/ AlertsBatch
    \/ AlertsRow(RowsOf(table))
    \/ AlertsEnd

Spec == Init /\ [][Next]_vars

-----------------------------------------------------------------------------
(* Predictive maintenance: configuration and scoring.  Health scores are   *)
(* kept in hundredths of a point, the precision of round(score, 2).        *)

\* variant: a score is poor below 70
HEALTH_SCORE_THRESHOLDS_raised ==
    [excellent |-> 90, good |-> 75, fair |-> 60, poor |-> 70, critical |-> 20]

HEALTH_SCORE_THRESHOLDS ==
    [excellent |-> 90, good |-> 75, fair |-> 60, poor |-> 40, critical |-> 20]

EQUIPMENT_PARAMETERS ==
    ("boiler" :> [critical_metrics |-> << "Water_Temp", "waterTemp", "temperature", "pressure" >>,
                  efficiency_baseline |-> 85, max_operating_temp |-> 200])
    @@ ("chiller" :> [critical_metrics |-> << "Chilled_Water_Temp", "SupplyTemp", "temperature" >>,
                      efficiency_baseline |-> 75, max_operating_temp |-> 50])
    @@ ("air-handler" :> [critical_metrics |-> << "Supply_Air_Temp", "Supply_Temp", "OutdoorTemp" >>,
                          efficiency_baseline |-> 80, max_operating_temp |-> 85])
    @@ ("pump" :> [critical_metrics |-> << "water_temp", "Supply_Temp", "pressure" >>,
                   efficiency_baseline |-> 70, max_operating_temp |-> 120])
    @@ ("fancoil" :> [critical_metrics |-> << "temperature", "Supply_Temp" >>,
                      efficiency_baseline |-> 75, max_operating_temp |-> 90])
    @@ ("geo" :> [critical_metrics |-> << "LoopTemp", "Loop_Temp" >>,
                  efficiency_baseline |-> 85, max_operating_temp |-> 60])

\* the plugin's own copy of the classifier
maintenance_determine_equipment_type(equipment_id) ==
    LET equipment_id_lower == Lower(equipment_id)
    IN IF Contains("boiler", equipment_id_lower) THEN "boiler"
       ELSE IF Contains("chiller", equipment_id_lower) THEN "chiller"
       ELSE IF Contains("pump", equipment_id_lower) THEN "pump"
       ELSE IF Contains("ahu", equipment_id_lower) \/ Contains("air", equipment_id_lower) THEN "air-handler"
       ELSE IF Contains("fancoil", equipment_id_lower) \/ Contains("fan", equipment_id_lower) THEN "fancoil"
       ELSE IF Contains("geo", equipment_id_lower) THEN "geo"
       ELSE "unknown"

Digits == "0123456789"
IsDigit(c) == \E i \in 1..10 : SubSeq(Digits, i, i) = c
DigitValue(c) == (CHOOSE i \in 1..10 : SubSeq(Digits, i, i) = c) - 1

RECURSIVE DecimalValue(_)
DecimalValue(s) ==
    IF s = "" THEN 0
    ELSE 10 * DecimalValue(SubSeq(s, 1, Len(s) - 1)) + DigitValue(SubSeq(s, Len(s), Len(s)))

\* float(v) on a number or on a string of decimal digits; it raises on None
\* and on any other string of the exploration
ParseFloat(v) ==
    IF v.t = "num" THEN [raised |-> FALSE, n |-> v.n]
    ELSE IF v.t = "str" /\ v.s # "" /\ \A i \in 1..Len(v.s) : IsDigit(SubSeq(v.s, i, i))
    THEN [raised |-> FALSE, n |-> DecimalValue(v.s)]
    ELSE [raised |-> TRUE, n |-> 0]

\* lines 503-506: float() of each critical metric the row carries, in order
RECURSIVE CollectTemps(_, _)
CollectTemps(metrics, critical_metrics) ==
    IF critical_metrics = << >>
    THEN << >>
    ELSE (IF Head(critical_metrics) \in DOMAIN metrics
          THEN << ParseFloat(metrics[Head(critical_metrics)]) >>
          ELSE << >>)
         \o CollectTemps(metrics, Tail(critical_metrics))

RECURSIVE Sum(_)
Sum(seq) == IF seq = << >> THEN 0 ELSE Head(seq).n + Sum(Tail(seq))

\* variant: the bands exclude their upper ends
calculate_temperature_health_strict(metrics, critical_metrics, max_temp) ==
    LET temps == CollectTemps(metrics, critical_metrics)
        n == Len(temps)
        total == Sum(temps)
    IN IF \E i \in 1..n : temps[i].raised THEN [raised |-> TRUE, value |-> 0]
       ELSE IF n = 0 THEN [raised |-> FALSE, value |-> 75]
       ELSE IF 10 * total < 8 * max_temp * n THEN [raised |-> FALSE, value |-> 100]
       ELSE IF 10 * total < 9 * max_temp * n THEN [raised |-> FALSE, value |-> 85]
       ELSE IF total < max_temp * n THEN [raised |-> FALSE, value |-> 70]
       ELSE [raised |-> FALSE, value |-> 30]

\* in points; avg_temp <= max_temp * 0.8 is compared as 10 * sum <= 8 * max * len
calculate_temperature_health(metrics, critical_metrics, max_temp) ==
    LET temps == CollectTemps(metrics, critical_metrics)
        n == Len(temps)
        total == Sum(temps)
    IN IF \E i \in 1..n : temps[i].raised THEN [raised |-> TRUE, value |-> 0]
       ELSE IF n = 0 THEN [raised |-> FALSE, value |-> 75]
       ELSE IF 10 * total <= 8 * max_temp * n THEN [raised |-> FALSE, value |-> 100]
       ELSE IF 10 * total <= 9 * max_temp * n THEN [raised |-> FALSE, value |-> 85]
       ELSE IF total <= max_temp * n THEN [raised |-> FALSE, value |-> 70]
       ELSE [raised |-> FALSE, value |-> 30]

calculate_efficiency_health(metrics, baseline_efficiency) == 80
calculate_trend_health(equipment_id, metrics) == 75
calculate_operational_health(metrics, equipment_type) == 80

\* variant: a score equal to a threshold falls in the bucket below
get_health_status_strict(health_score) ==
    IF health_score > HEALTH_SCORE_THRESHOLDS.excellent * 100 THEN "excellent"
    ELSE IF health_score > HEALTH_SCORE_THRESHOLDS.good * 100 THEN "good"
    ELSE IF health_score > HEALTH_SCORE_THRESHOLDS.fair * 100 THEN "fair"
    ELSE IF health_score > HEALTH_SCORE_THRESHOLDS.poor * 100 THEN "poor"
    ELSE "critical"

\* health_score in hundredths
get_health_status(health_score) ==
    IF health_score >= HEALTH_SCORE_THRESHOLDS.excellent * 100 THEN "excellent"
    ELSE IF health_score >= HEALTH_SCORE_THRESHOLDS.good * 100 THEN "good"
    ELSE IF health_score >= HEALTH_SCORE_THRESHOLDS.fair * 100 THEN "fair"
    ELSE IF health_score >= HEALTH_SCORE_THRESHOLDS.poor * 100 THEN "poor"
    ELSE "critical"

history_limit == 100

\* variant: the oldest entry goes only when more than history_limit are held
update_equipment_history_late(history, equipment_id, health_score) ==
    LET old == DictGet(history, equipment_id, << >>)
        kept == IF Len(old) > history_limit THEN Tail(old) ELSE old
    IN DictUpdate(history, [k \in {equipment_id} |-> Append(kept, health_score)])

\* lines 554-566: keep the last history_limit entries of the equipment
update_equipment_history(history, equipment_id, health_score) ==
    LET old == DictGet(history, equipment_id, << >>)
        kept == IF Len(old) >= history_limit THEN Tail(old) ELSE old
    IN DictUpdate(history, [k \in {equipment_id} |-> Append(kept, health_score)])

\* lines 261-266: the result of an analysis that raised
AnalysisError == [health_score |-> 5000, status |-> "error"]

\* variant: the trend weighs 0.35 and the operation 0.15
analyze_equipment_health_reweighted(equipment_id, metrics, history) ==
    IF equipment_id.t # "str"
    THEN \* equipment_id.lower() raises
         [analysis |-> AnalysisError, history |-> history,
          ev |-> << ErrorLog("analyze_equipment_health") >>]
    ELSE
    LET equipment_type == maintenance_determine_equipment_type(equipment_id.s)
        params == DictGet(EQUIPMENT_PARAMETERS, equipment_type, EmptyDict)
        critical_metrics == DictGet(params, "critical_metrics", << >>)
        efficiency_baseline == DictGet(params, "efficiency_baseline", 75)
        max_temp == DictGet(params, "max_operating_temp", 100)
        temperature_health == calculate_temperature_health(metrics, critical_metrics, max_temp)
        efficiency_health == calculate_efficiency_health(metrics, efficiency_baseline)
        trend_health == calculate_trend_health(equipment_id, metrics)
        operational_health == calculate_operational_health(metrics, equipment_type)
        health_score == temperature_health.value * 25 + efficiency_health * 25
                        + trend_health * 35 + operational_health * 15
    IN  IF temperature_health.raised
        THEN [analysis |-> AnalysisError, history |-> history,
              ev |-> << ErrorLog("analyze_equipment_health") >>]
        ELSE [analysis |-> [health_score |-> health_score,
                            status |-> get_health_status(health_score),
                            temperature_health |-> temperature_health.value * 100,
                            efficiency_health |-> efficiency_health * 100,
                            trend_health |-> trend_health * 100,
                            operational_health |-> operational_health * 100,
                            equipment_type |-> equipment_type],
              history |-> update_equipment_history(history, equipment_id, health_score),
              ev |-> << >>]

\* lines 210-266; returns the analysis, the history it leaves and its log
analyze_equipment_health(equipment_id, metrics, history) ==
    IF equipment_id.t # "str"
    THEN \* equipment_id.lower() raises
         [analysis |-> AnalysisError, history |-> history,
          ev |-> << ErrorLog("analyze_equipment_health") >>]
    ELSE
    LET equipment_type == maintenance_determine_equipment_type(equipment_id.s)
        params == DictGet(EQUIPMENT_PARAMETERS, equipment_type, EmptyDict)
        critical_metrics == DictGet(params, "critical_metrics", << >>)
        efficiency_baseline == DictGet(params, "efficiency_baseline", 75)
        max_temp == DictGet(params, "max_operating_temp", 100)
        temperature_health == calculate_temperature_health(metrics, critical_metrics, max_temp)
        efficiency_health == calculate_efficiency_health(metrics, efficiency_baseline)
        trend_health == calculate_trend_health(equipment_id, metrics)
        operational_health == calculate_operational_health(metrics, equipment_type)
        health_score == temperature_health.value * 25 + efficiency_health * 25
                        + trend_health * 30 + operational_health * 20
    IN  IF temperature_health.raised
        THEN [analysis |-> AnalysisError, history |-> history,
              ev |-> << ErrorLog("analyze_equipment_health") >>]
        ELSE [analysis |-> [health_score |-> health_score,
                            status |-> get_health_status(health_score),
                            temperature_health |-> temperature_health.value * 100,
                            efficiency_health |-> efficiency_health * 100,
                            trend_health |-> trend_health * 100,
                            operational_health |-> operational_health * 100,
                            equipment_type |-> equipment_type],
              history |-> update_equipment_history(history, equipment_id, health_score),
              ev |-> << >>]


\* variant: the probabilities of the two middle brackets are exchanged
predict_equipment_failure_exchanged(equipment_id, health_analysis) ==
    LET health_score == DictGet(health_analysis, "health_score", 5000)
        failure_probability ==
            IF health_score >= 8500 THEN 5
            ELSE IF health_score >= 7000 THEN 35
            ELSE IF health_score >= 5000 THEN 15
            ELSE IF health_score >= 3000 THEN 60
            ELSE 85
        time_to_failure ==
            IF health_score >= 8500 THEN 180
            ELSE IF health_score >= 7000 THEN 90
            ELSE IF health_score >= 5000 THEN 30
            ELSE IF health_score >= 3000 THEN 14
            ELSE 7
        priority ==
            IF failure_probability >= 60 THEN "critical"
            ELSE IF failure_probability >= 35 THEN "high"
            ELSE IF failure_probability >= 15 THEN "medium"
            ELSE "low"
    IN [equipment_id |-> equipment_id,
        failure_probability |-> failure_probability,
        estimated_time_to_failure_days |-> time_to_failure,
        maintenance_priority |-> priority]

\* lines 268-325; health_score in hundredths.  The texts of the prediction
\* (failure modes, recommendation) are not kept.
predict_equipment_failure(equipment_id, health_analysis) ==
    LET health_score == DictGet(health_analysis, "health_score", 5000)
        failure_probability ==
            IF health_score >= 8500 THEN 5
            ELSE IF health_score >= 7000 THEN 15
            ELSE IF health_score >= 5000 THEN 35
            ELSE IF health_score >= 3000 THEN 60
            ELSE 85
        time_to_failure ==
            IF health_score >= 8500 THEN 180
            ELSE IF health_score >= 7000 THEN 90
            ELSE IF health_score >= 5000 THEN 30
            ELSE IF health_score >= 3000 THEN 14
            ELSE 7
        priority ==
            IF failure_probability >= 60 THEN "critical"
            ELSE IF failure_probability >= 35 THEN "high"
            ELSE IF failure_probability >= 15 THEN "medium"
            ELSE "low"
    IN [equipment_id |-> equipment_id,
        failure_probability |-> failure_probability,
        estimated_time_to_failure_days |-> time_to_failure,
        maintenance_priority |-> priority]

\* lines 327-376.  The task list, duration and cost of the schedule are not kept.
update_maintenance_schedule(equipment_id, health_analysis, failure_prediction) ==
    LET priority == DictGet(failure_prediction, "maintenance_priority", "medium")
    IN [equipment_id |-> equipment_id,
        next_maintenance_days |->
            IF priority = "critical" THEN 3
            ELSE IF priority = "high" THEN 7
            ELSE IF priority = "medium" THEN 30
            ELSE 90,
        maintenance_type |->
            IF priority = "critical" THEN "emergency_inspection"
            ELSE IF priority = "high" THEN "priority_maintenance"
            ELSE IF priority = "medium" THEN "scheduled_maintenance"
            ELSE "routine_maintenance",
        priority |-> priority]

\* lines 378-443: three records, written in order; failing = k > 0: the host
\* write of the k-th raises, which ends the function with an error line
write_maintenance_analytics(equipment_id, location_id, health_analysis, failure_prediction, maintenance_update, failing) ==
    LET lines == << [measurement |-> "equipment_health",
                     tags |-> [equipment_id |-> equipment_id, location_id |-> location_id,
                               health_status |-> DictGet(health_analysis, "status", "unknown")],
                     value |-> DictGet(health_analysis, "health_score", 5000)],
                    [measurement |-> "failure_predictions",
                     tags |-> [equipment_id |-> equipment_id, location_id |-> location_id,
                               priority |-> DictGet(failure_prediction, "maintenance_priority", "medium")],
                     value |-> DictGet(failure_prediction, "failure_probability", 25)],
                    [measurement |-> "maintenance_schedule",
                     tags |-> [equipment_id |-> equipment_id, location_id |-> location_id,
                               priority |-> DictGet(maintenance_update, "priority", "medium")],
                     value |-> DictGet(maintenance_update, "next_maintenance_days", 0)] >>
        n == IF failing = 0 THEN Len(lines) ELSE failing
    IN [i \in 1..n |-> Write(lines[i], i # failing)]
       \o (IF failing = 0 THEN << >> ELSE << ErrorLog("write_maintenance_analytics") >>)

\* lines 445-479
generate_maintenance_alert(equipment_id, location_id, health_analysis, failure_prediction, o) ==
    LET health_score == DictGet(health_analysis, "health_score", 10000)
        alert_level ==
            IF health_score < HEALTH_SCORE_THRESHOLDS.critical * 100 THEN "critical"
            ELSE IF DictGet(failure_prediction, "failure_probability", 0) > 60 THEN "high"
            ELSE "warning"
        line == [measurement |-> "maintenance_alerts",
                 tags |-> [equipment_id |-> equipment_id, location_id |-> location_id,
                           alert_level |-> alert_level],
                 value |-> health_score]
    IN IF o = "ok" THEN << Write(line, TRUE) >>
       ELSE << Write(line, FALSE), ErrorLog("generate_maintenance_alert") >>

\* the observer's record of an analysis: the score of a reading that was scored
Arrive(seen, equipment_id, analysis) ==
    IF analysis.status = "error"
    THEN seen
    ELSE DictUpdate(seen, [k \in {equipment_id} |->
                              Append(DictGet(seen, equipment_id, << >>), analysis.health_score)])

\* lines 181-204: one row of a metrics batch.  raised: row.get raised, which
\* nothing below the entry point catches.  m holds the module's three maps.
MaintenanceRowResult(row, m, failing, o) ==
    IF ~row.mapping
    THEN [kind |-> "maintenance", row |-> row, raised |-> TRUE, analysed |-> FALSE,
          maintenance |-> m, ev |-> << >>]
    ELSE
    LET equipment_id == DictGet(row.items, "equipmentId", NoneV)
        location_id == DictGet(row.items, "location_id", NoneV)
    IN  IF ~(Truthy(equipment_id) /\ Truthy(location_id))
        THEN [kind |-> "maintenance", row |-> row, raised |-> FALSE, analysed |-> FALSE,
              maintenance |-> m, ev |-> << >>]
        ELSE
        LET a == analyze_equipment_health(equipment_id, row.items, m.equipment_history)
            failure_prediction == predict_equipment_failure(equipment_id, a.analysis)
            maintenance_update == update_maintenance_schedule(equipment_id, a.analysis, failure_prediction)
            written == write_maintenance_analytics(equipment_id, location_id, a.analysis,
                                                   failure_prediction, maintenance_update, failing)
            alerted == IF a.analysis.health_score < HEALTH_SCORE_THRESHOLDS.poor * 100
                       THEN generate_maintenance_alert(equipment_id, location_id, a.analysis,
                                                       failure_prediction, o)
                       ELSE << >>
        IN [kind |-> "maintenance", row |-> row, raised |-> FALSE, analysed |-> TRUE,
            equipment_id |-> equipment_id, analysis |-> a.analysis,
            maintenance |-> [equipment_history |-> a.history,
                             failure_predictions |->
                                 DictUpdate(m.failure_predictions,
                                            [k \in {equipment_id} |-> failure_prediction]),
                             maintenance_schedules |->
                                 DictUpdate(m.maintenance_schedules,
                                            [k \in {equipment_id} |-> maintenance_update])],
            ev |-> a.ev \o written \o alerted]

-----------------------------------------------------------------------------
(* Dual-run HVAC controller.  The equipment logic itself runs in a         *)
(* subprocess; what it produces is an input.                               *)

\* an excerpt of the table: three locations, six entries; the fan coil of
\* lines 205 and 254 is in the mapping of location 1 and in that of location 4
LOCATION_CONFIGS ==
    ("1" :> [name |-> "warren",
             equipment_mapping |-> ("2JFzwQkC1XwJhUvm09rE" :> "ahu-1")
                                   @@ ("kP8mvn1dozaDclSBFsgC" :> "fancoil-7")
                                   @@ ("cZmHxji6UMnseaEY8SRb" :> "hwpump-1")])
    @@ ("2" :> [name |-> "location2",
                equipment_mapping |-> ("bnYB1NsELgKgEVhGPjF8" :> "fancoil-110")])
    @@ ("4" :> [name |-> "huntington",
                equipment_mapping |-> ("ZLYR6YveSmCEMqtBSy3e" :> "comfortboiler-1")
                                      @@ ("kP8mvn1dozaDclSBFsgC" :> "fancoil-7")])

\* the keys of the table in the order of the dict literal, which is the order
\* in which LOCATION_CONFIGS.items() yields them
LocationOrder == << "1", "2", "4" >>

\* the same excerpt of the logic files: (location name, category) pairs
JAVASCRIPT_LOGIC_PATHS ==
    { <<"warren", "air-handler">>, <<"warren", "fan-coil">>, <<"warren", "pumps">>,
      <<"warren", "steam-bundle">>,
      <<"huntington", "boiler">>, <<"huntington", "fan-coil">>, <<"huntington", "pumps">> }

\* lines 490-496: the first location of the table, in the order of the
\* literal, whose mapping has the id; (None, None) is the pair of empty strings
identify_equipment(equipment_id) ==
    LET hits == { i \in 1..Len(LocationOrder) :
                    equipment_id \in DOMAIN LOCATION_CONFIGS[LocationOrder[i]].equipment_mapping }
    IN IF hits # {}
       THEN LET location_id == LocationOrder[CHOOSE i \in hits : \A j \in hits : i <= j]
            IN [location_id |-> location_id,
                equipment_type |-> LOCATION_CONFIGS[location_id].equipment_mapping[equipment_id]]
       ELSE [location_id |-> "", equipment_type |-> ""]

\* s.startswith(prefix)
StartsWith(s, prefix) == Len(s) >= Len(prefix) /\ SubSeq(s, 1, Len(prefix)) = prefix

get_equipment_category(equipment_type) ==
    IF StartsWith(equipment_type, "ahu") THEN "air-handler"
    ELSE IF StartsWith(equipment_type, "fancoil") THEN "fan-coil"
    ELSE IF StartsWith(equipment_type, "boiler") \/ StartsWith(equipment_type, "comfortboiler")
            \/ StartsWith(equipment_type, "domesticboiler") THEN "boiler"
    ELSE IF StartsWith(equipment_type, "chiller") THEN "chiller"
    ELSE IF StartsWith(equipment_type, "hwpump") \/ StartsWith(equipment_type, "cwpump") THEN "pumps"
    ELSE IF StartsWith(equipment_type, "doas") THEN "doas"
    ELSE IF StartsWith(equipment_type, "geo") THEN "geo"
    ELSE IF StartsWith(equipment_type, "steambundle") THEN "steam-bundle"
    ELSE "unknown"

\* base: the fallback logic file of the category exists
get_javascript_logic_path(location_name, equipment_category, base) ==
    << location_name, equipment_category >> \in JAVASCRIPT_LOGIC_PATHS \/ base

\* the group of equipment_id gets one more row; a new group goes to the end
AddToGroup(groups, equipment_id, row) ==
    IF \E i \in 1..Len(groups) : groups[i].equipment_id = equipment_id
    THEN [i \in 1..Len(groups) |->
            IF groups[i].equipment_id = equipment_id
            THEN [groups[i] EXCEPT !.metrics = Append(groups[i].metrics, row)]
            ELSE groups[i]]
    ELSE Append(groups, [equipment_id |-> equipment_id, metrics |-> << row >>])

\* variant: a row without equipment id is grouped under the empty id
RECURSIVE group_metrics_by_equipment_keepAll(_)
group_metrics_by_equipment_keepAll(rows) ==
    IF rows = << >>
    THEN [raised |-> FALSE, groups |-> << >>]
    ELSE LET row == rows[Len(rows)]
             before == group_metrics_by_equipment_keepAll(SubSeq(rows, 1, Len(rows) - 1))
         IN IF before.raised \/ ~row.mapping
            THEN [raised |-> TRUE, groups |-> << >>]
            ELSE [raised |-> FALSE,
                  groups |-> AddToGroup(before.groups,
                                        DictGet(row.items, "equipmentId", Str("")).s, row)]

\* lines 430-441: the rows of a batch by equipment id, in the order in which
\* the ids first occur; raised: row.get raised on a row that is not a dict
RECURSIVE group_metrics_by_equipment(_)
group_metrics_by_equipment(rows) ==
    IF rows = << >>
    THEN [raised |-> FALSE, groups |-> << >>]
    ELSE LET row == rows[Len(rows)]
             before == group_metrics_by_equipment(SubSeq(rows, 1, Len(rows) - 1))
         IN IF before.raised \/ ~row.mapping
            THEN [raised |-> TRUE, groups |-> << >>]
            ELSE IF Truthy(DictGet(row.items, "equipmentId", NoneV))
            THEN [raised |-> FALSE,
                  groups |-> AddToGroup(before.groups, row.items.equipmentId.s, row)]
            ELSE before

\* lines 443-488.  js.result: "commands" (the subprocess gave a result that
\* converts to js.commands), "none" (non-zero exit, timeout or unusable
\* output: call_javascript_logic returned None), "exc" (an exception inside
\* this function)
process_equipment_with_javascript(equipment_id, js) ==
    LET e == identify_equipment(equipment_id)
    IN IF e.location_id = "" \/ e.equipment_type = ""
       THEN [commands |-> << >>, ev |-> << WarningLog("process_equipment_with_javascript") >>]
       ELSE IF ~get_javascript_logic_path(LOCATION_CONFIGS[e.location_id].name,
                                          get_equipment_category(e.equipment_type), js.base)
       THEN [commands |-> << >>, ev |-> << WarningLog("process_equipment_with_javascript") >>]
       ELSE IF js.result = "exc"
       THEN [commands |-> << >>, ev |-> << ErrorLog("process_equipment_with_javascript") >>]
       ELSE IF js.result = "none"
       THEN [commands |-> << >>, ev |-> << ErrorLog("call_javascript_logic") >>]
       ELSE [commands |-> js.commands, ev |-> << >>]

\* variant: the commands are written to the measurement the readings come from
write_commands_to_database_production(equipment_id, commands, wouts) ==
    LET e == identify_equipment(equipment_id)
    IN IF e.location_id = "" \/ e.equipment_type = ""
       THEN << >>
       ELSE [i \in 1..Len(commands) |->
                Write([measurement |-> "metrics",
                       tags |-> [equipment_id |-> equipment_id, location_id |-> e.location_id,
                                 command_type |-> commands[i].command_type,
                                 equipment_type |-> e.equipment_type,
                                 source |-> "javascript-logic", status |-> "active"],
                       value |-> commands[i].value], TRUE)]

\* lines 936-985: one record per command; wouts[i] = "exc": the host write of
\* the i-th raises, which is logged and the next command is written
write_commands_to_database(equipment_id, commands, wouts) ==
    LET e == identify_equipment(equipment_id)
        line(command) == [measurement |-> "ProcessingEngineCommands",
                          tags |-> [equipment_id |-> equipment_id, location_id |-> e.location_id,
                                    command_type |-> command.command_type,
                                    equipment_type |-> e.equipment_type,
                                    source |-> "javascript-logic", status |-> "active"],
                          value |-> command.value]
        RECURSIVE WriteFrom(_)
        WriteFrom(i) ==
            IF i > Len(commands) THEN << >>
            ELSE (IF wouts[i] = "ok"
                  THEN << Write(line(commands[i]), TRUE) >>
                  ELSE << Write(line(commands[i]), FALSE), ErrorLog("write_commands_to_database") >>)
                 \o WriteFrom(i + 1)
    IN IF e.location_id = "" \/ e.equipment_type = ""
       THEN << >>
       ELSE WriteFrom(1)

\* lines 411-422: one piece of equipment of the batch
HvacEquipmentResult(equipment_id, js, wouts) ==
    LET p == process_equipment_with_javascript(equipment_id, js)
    IN [kind |-> "hvac", equipment_id |-> equipment_id, raised |-> FALSE,
        commands |-> p.commands,
        ev |-> p.ev \o (IF p.commands # << >>
                        THEN write_commands_to_database(equipment_id, p.commands, wouts)
                        ELSE << >>)]

-----------------------------------------------------------------------------
(* The three entry points under one host *)

\* variant: the exception leaves the entry point
MaintenanceExcept_propagating == [pc |-> "raised", log |-> << >>]

\* predictive maintenance, lines 207-208
MaintenanceExcept == [pc |-> "returned", log |-> << ErrorLog("maintenance.process_writes") >>]

\* dual-run controller, lines 427-428
HvacExcept == [pc |-> "returned", log |-> << ErrorLog("hvac.process_writes") >>]

MaintenanceRows ==
    { Row([equipmentId |-> Str("boiler-3"), location_id |-> Str("4"), Water_Temp |-> Num(v)]) :
        v \in {160, 180, 200, 201} }
    \cup { Row([equipmentId |-> Str("boiler-3"), location_id |-> Str("4")]),
           Row([equipmentId |-> Str("boiler-3"), location_id |-> Str("4"), Water_Temp |-> Str("n/a")]),
           Row([equipmentId |-> Str("boiler-3"), Water_Temp |-> Num(201)]),
           Row([equipmentId |-> Num(7), location_id |-> Str("4")]),
           NotADict }

HvacEquipmentIds ==
    {"2JFzwQkC1XwJhUvm09rE", "bnYB1NsELgKgEVhGPjF8", "ZLYR6YveSmCEMqtBSy3e",
     "kP8mvn1dozaDclSBFsgC", "not-in-the-table"}

\* the rows of a metrics batch handed to the controller
HvacRows ==
    { Row([equipmentId |-> Str(id), location_id |-> Str("1")]) : id \in HvacEquipmentIds }
    \cup { Row([equipmentId |-> Str("2JFzwQkC1XwJhUvm09rE")]),
           Row([location_id |-> Str("1")]),
           Row([equipmentId |-> Str(""), location_id |-> Str("1")]),
           NotADict }

HvacCommands ==
    << [command_type |-> "fanEnabled", value |-> "true"],
       [command_type |-> "heatingValvePosition", value |-> "35.0"],
       [command_type |-> "unitEnable", value |-> "true"] >>

\* what the subprocess and the file system do for one piece of equipment
JsOutcomes ==
    { [base |-> FALSE, result |-> r, commands |-> << >>] : r \in {"none", "exc"} }
    \cup { [base |-> b, result |-> "commands", commands |-> SubSeq(HvacCommands, 1, n)] :
             b \in BOOLEAN, n \in 0..MaxCommands }

\* the trigger arguments the host explores
HostConfigsFor(env) == {{}, {"slack_webhook_url", "alerts_db"}}

MaintenanceBegin ==
    /\ pc # "running"
    /\ \E nb \in 0..MaxBatches : batchesLeft' = nb
    /\ pc' = "running"
    /\ handler' = "maintenance"
    /\ cfg' = {}
    /\ rowsLeft' = 0
    /\ table' = ""
    /\ last' = NoRow
    /\ hostlog' = << >>
    /\ UNCHANGED <<now, environ, arrivals, maintenance, last_alert_times, fired>>

\* lines 172-179: the next table batch; one that is not a dict, or a metrics
\* batch whose rows have no len(), raises inside the outer try
MaintenanceBatch ==
    /\ pc = "running" /\ handler = "maintenance"
    /\ rowsLeft = 0 /\ batchesLeft > 0
    /\ batchesLeft' = batchesLeft - 1
    /\ \/ /\ pc' = MaintenanceExcept.pc
          /\ hostlog' = hostlog \o MaintenanceExcept.log
          /\ UNCHANGED <<rowsLeft, table>>
       \/ /\ \E t \in {"metrics", "other"}, n \in 0..MaxRows :
                /\ rowsLeft' = (IF t = "metrics" THEN n ELSE 0)
                /\ table' = (IF t = "metrics" /\ n > 0 THEN t ELSE "")
          /\ UNCHANGED <<pc, hostlog>>
    /\ last' = NoRow
    /\ UNCHANGED <<now, environ, arrivals, maintenance, last_alert_times, handler, cfg, fired>>

\* lines 181-204: one row of the current batch
MaintenanceRow ==
    /\ pc = "running" /\ handler = "maintenance"
    /\ rowsLeft > 0
    /\ \E row \in MaintenanceRows, failing \in 0..3 :
          /\ last' = MaintenanceRowResult(row, maintenance, failing, "ok")
          /\ failing # 0 => last'.analysed
          /\ maintenance' = last'.maintenance
          /\ arrivals' = (IF last'.analysed
                          THEN Arrive(arrivals, last'.equipment_id, last'.analysis)
                          ELSE arrivals)
          /\ \A e \in DOMAIN maintenance'.equipment_history :
                Len(maintenance'.equipment_history[e]) <= MaxHistory
          /\ IF last'.raised
                THEN /\ pc' = MaintenanceExcept.pc
                     /\ hostlog' = hostlog \o MaintenanceExcept.log
                ELSE UNCHANGED <<pc, hostlog>>
    /\ rowsLeft' = rowsLeft - 1
    /\ table' = (IF rowsLeft = 1 THEN "" ELSE table)
    /\ UNCHANGED <<now, environ, last_alert_times, handler, cfg, batchesLeft, fired>>

\* line 206: every batch was visited
MaintenanceEnd ==
    /\ pc = "running" /\ handler = "maintenance"
    /\ rowsLeft = 0 /\ batchesLeft = 0
    /\ pc' = "returned"
    /\ last' = NoRow
    /\ UNCHANGED <<now, environ, arrivals, maintenance, last_alert_times, handler, cfg, batchesLeft,
                   rowsLeft, table, fired, hostlog>>

HvacBegin ==
    /\ pc # "running"
    /\ \E nb \in 0..MaxBatches : batchesLeft' = nb
    /\ pc' = "running"
    /\ handler' = "hvac"
    /\ cfg' = {}
    /\ rowsLeft' = 0
    /\ table' = ""
    /\ last' = NoRow
    /\ hostlog' = << >>
    /\ UNCHANGED <<now, environ, arrivals, maintenance, last_alert_times, fired>>

\* lines 398-409: the next table batch, grouped by equipment; a batch that is
\* not a dict, rows without len(), or a row that is not a dict (on which
\* group_metrics_by_equipment raises) ends the call in the outer handler.
\* rowsLeft counts the groups still to be processed.
HvacBatch ==
    /\ pc = "running" /\ handler = "hvac"
    /\ rowsLeft = 0 /\ batchesLeft > 0
    /\ batchesLeft' = batchesLeft - 1
    /\ \/ /\ pc' = HvacExcept.pc
          /\ hostlog' = hostlog \o HvacExcept.log
          /\ last' = NoRow
          /\ UNCHANGED <<rowsLeft, table>>
       \/ /\ rowsLeft' = 0
          /\ table' = ""
          /\ last' = NoRow
          /\ UNCHANGED <<pc, hostlog>>
       \/ \E n \in 0..MaxRows : \E rows \in [1..n -> HvacRows] :
             /\ last' = DictUpdate(group_metrics_by_equipment(rows),
                                   [kind |-> "grouped", rows |-> rows])
             /\ IF last'.raised
                   THEN /\ pc' = HvacExcept.pc
                        /\ hostlog' = hostlog \o HvacExcept.log
                        /\ UNCHANGED <<rowsLeft, table>>
                   ELSE /\ rowsLeft' = Len(last'.groups)
                        /\ table' = (IF last'.groups # << >> THEN "metrics" ELSE "")
                        /\ UNCHANGED <<pc, hostlog>>
    /\ UNCHANGED <<now, environ, arrivals, maintenance, last_alert_times, handler, cfg, fired>>

\* lines 411-422: the next group of the current batch
HvacEquipment ==
    /\ pc = "running" /\ handler = "hvac"
    /\ rowsLeft > 0
    /\ \E js \in JsOutcomes, wouts \in [1..MaxCommands -> WriteOutcomes] :
          /\ last' = DictUpdate(HvacEquipmentResult(Head(last.groups).equipment_id, js, wouts),
                                [groups |-> Tail(last.groups)])
          /\ \A i \in 1..MaxCommands : i > Len(last'.commands) => wouts[i] = "ok"
          /\ hostlog' = (IF last'.raised
                         THEN hostlog \o << ErrorLog("hvac.equipment") >>
                         ELSE hostlog)
    /\ rowsLeft' = rowsLeft - 1
    /\ table' = (IF rowsLeft = 1 THEN "" ELSE table)
    /\ UNCHANGED <<now, environ, arrivals, maintenance, last_alert_times, pc, handler, cfg,
                   batchesLeft, fired>>

\* lines 424-425: every batch was visited
HvacEnd ==
    /\ pc = "running" /\ handler = "hvac"
    /\ rowsLeft = 0 /\ batchesLeft = 0
    /\ pc' = "returned"
    /\ last' = NoRow
    /\ UNCHANGED <<now, environ, arrivals, maintenance, last_alert_times, handler, cfg, batchesLeft,
                   rowsLeft, table, fired, hostlog>>

NextHost ==
    \/ AlertsBegin(HostConfigsFor(environ))
    \/ AlertsBatch
    \/ AlertsRow(RowsOf(table))
    \/ AlertsEnd
    \/ MaintenanceBegin
    \/ MaintenanceBatch
    \/ MaintenanceRow
    \/ MaintenanceEnd
    \/ HvacBegin
    \/ HvacBatch
    \/ HvacEquipment
    \/ HvacEnd

InitHost == Init /\ environ = {}

SpecHost == InitHost /\ [][NextHost]_vars

-----------------------------------------------------------------------------
(* One reading on its own: evaluated, notified, and handed in once more   *)
(* after some time                                                         *)

EvalIds == {"boiler-3", "Chiller-2", "pump-1", "AHU-4", "fancoil-5", "geo-6", "vav-7"}

\* every threshold of the table, the value above each, zero, the default 999
\* and a value above it
EvalTemperatures ==
    {0, 999, 1000}
    \cup UNION { {EQUIPMENT_ALERT_THRESHOLDS[c].critical_temp, EQUIPMENT_ALERT_THRESHOLDS[c].critical_temp + 1,
                  EQUIPMENT_ALERT_THRESHOLDS[c].high_temp, EQUIPMENT_ALERT_THRESHOLDS[c].high_temp + 1} :
                 c \in DOMAIN EQUIPMENT_ALERT_THRESHOLDS }

\* the health scores around the two comparisons of process_health_alerts
EvalHealthScores == {0, 19, 20, 21, 39, 40, 41, 100}

EvalHealthRows ==
    { Row([equipment_id |-> Str("pump-1"), location_id |-> Str("4"), health_score |-> Num(v)]) :
        v \in EvalHealthScores }
    \cup { Row([equipment_id |-> Str("pump-1"), health_score |-> Num(19)]),
           Row([equipment_id |-> Str("pump-1"), location_id |-> Str("4")]),
           Row([equipment_id |-> Str("pump-1"), location_id |-> Str("4"), health_score |-> Str("19")]),
           Row([location_id |-> Str("4"), health_score |-> Num(19)]),
           Row([equipment_id |-> Str(""), location_id |-> Str("4"), health_score |-> Num(19)]) }

EvalReadings ==
    { [table |-> "metrics",
       row |-> Row([equipmentId |-> Str(id), location_id |-> Str("4"), temperature |-> Num(v)])] :
        id \in EvalIds, v \in EvalTemperatures }
    \cup { [table |-> "equipment_health", row |-> row] : row \in EvalHealthRows }

\* the trigger arguments of the call that hands the reading in
EvalConfigs == {{}, {"recipient_email"}, {"slack_webhook_url", "discord_webhook_url"}}

InitEval ==
    /\ now = 0
    /\ environ = {}
    /\ last_alert_times = EmptyDict
    /\ maintenance = [equipment_history |-> EmptyDict, failure_predictions |-> EmptyDict,
                      maintenance_schedules |-> EmptyDict]
    /\ pc = "idle"
    /\ handler = "none"
    /\ cfg \in EvalConfigs
    /\ batchesLeft = 0
    /\ rowsLeft = 0
    /\ table = ""
    /\ \E r \in EvalReadings : last = [kind |-> "reading", table |-> r.table, row |-> r.row]
    /\ fired = EmptyDict
    /\ arrivals = EmptyDict
    /\ hostlog = << >>

\* lines 105, 114: the evaluator of the reading's table
EvalStep ==
    /\ last.kind = "reading"
    /\ last' = [kind |-> "evaluated", table |-> last.table, row |-> last.row,
                result |-> Evaluate(last.table, last.row)]
    /\ UNCHANGED <<now, environ, arrivals, maintenance, last_alert_times, pc, handler, cfg, batchesLeft,
                   rowsLeft, table, fired, hostlog>>

\* lines 107-109, 116-118: the candidate, if any, is handed to send_alert_notification
EvalNotify ==
    /\ last.kind = "evaluated"
    /\ \E outs \in OutcomesOf(last.result, cfg, environ, now, last_alert_times) :
          /\ last' = DictUpdate(last, [kind |-> "notified",
                        first |-> AlertRowResult(last.row, last.result, cfg, environ, now,
                                                 last_alert_times, outs)])
          /\ last_alert_times' = last'.first.times
    /\ UNCHANGED <<now, environ, arrivals, maintenance, pc, handler, cfg, batchesLeft,
                   rowsLeft, table, fired, hostlog>>

\* time passes before the reading arrives again
EvalWait ==
    /\ last.kind = "notified"
    /\ \E t \in Instants : t > now /\ now' = t
    /\ UNCHANGED <<environ, arrivals, maintenance, last_alert_times, pc, handler, cfg, batchesLeft,
                   rowsLeft, table, last, fired, hostlog>>

\* the same reading in a later batch: evaluated and handed in again
EvalRenotify ==
    /\ last.kind = "notified"
    /\ \E outs \in OutcomesOf(last.result, cfg, environ, now, last_alert_times) :
          /\ last' = DictUpdate(last, [kind |-> "renotified",
                        second |-> AlertRowResult(last.row, Evaluate(last.table, last.row), cfg,
                                                  environ, now, last_alert_times, outs)])
          /\ last_alert_times' = last'.second.times
    /\ UNCHANGED <<now, environ, arrivals, maintenance, pc, handler, cfg, batchesLeft,
                   rowsLeft, table, fired, hostlog>>

NextEval ==
    \/ EvalStep
    \/ EvalNotify
    \/ EvalWait
    \/ EvalRenotify

SpecEval == InitEval /\ [][NextEval]_vars

-----------------------------------------------------------------------------
(* The health analysis on its own: one reading analysed by a freshly       *)
(* loaded module, and one score turned into its status                     *)

HealthIds == {"boiler-3", "Chiller-2", "pump-1", "AHU-4", "fancoil-5", "geo-6", "vav-7"}

\* max_temp of the equipment, as analyze_equipment_health looks it up
MaxTempOf(id) ==
    DictGet(DictGet(EQUIPMENT_PARAMETERS, maintenance_determine_equipment_type(id), EmptyDict),
            "max_operating_temp", 100)

\* the first critical metric of the equipment; an equipment of unknown type
\* has none and reports "temperature"
FirstMetricOf(id) ==
    LET names == DictGet(DictGet(EQUIPMENT_PARAMETERS, maintenance_determine_equipment_type(id),
                                 EmptyDict),
                         "critical_metrics", << >>)
    IN IF names = << >> THEN "temperature" ELSE names[1]

\* the whole degrees on both sides of the three band limits of max_temp
BandTemperatures(max_temp) ==
    { (8 * max_temp) \div 10, (8 * max_temp) \div 10 + 1,
      (9 * max_temp) \div 10, (9 * max_temp) \div 10 + 1,
      max_temp, max_temp + 1 }

HealthReadings ==
    UNION { { [equipment_id |-> Str(id),
               metrics |-> (FirstMetricOf(id) :> Num(v))
                           @@ [equipmentId |-> Str(id), location_id |-> Str("4")]] :
                v \in BandTemperatures(MaxTempOf(id)) } : id \in HealthIds }
    \cup { [equipment_id |-> Str("boiler-3"),
            metrics |-> [equipmentId |-> Str("boiler-3"), location_id |-> Str("4"),
                         Water_Temp |-> Num(150), temperature |-> Num(v)]] :
             v \in {170, 171, 210, 211, 250, 251} }
    \cup { [equipment_id |-> Str("boiler-3"),
            metrics |-> [equipmentId |-> Str("boiler-3"), location_id |-> Str("4"),
                         Water_Temp |-> v]] :
             v \in {Str("160"), Str("161"), Str("n/a"), NoneV} }
    \cup { [equipment_id |-> Str("boiler-3"),
            metrics |-> [equipmentId |-> Str("boiler-3"), location_id |-> Str("4")]],
           [equipment_id |-> Num(7),
            metrics |-> [equipmentId |-> Num(7), location_id |-> Str("4"),
                         temperature |-> Num(70)]] }

\* scores in hundredths of a point, from 0 to 100 points
StatusScores == 0..(100 * 100)

InitHealth ==
    /\ now = 0
    /\ environ = {}
    /\ last_alert_times = EmptyDict
    /\ maintenance = [equipment_history |-> EmptyDict, failure_predictions |-> EmptyDict,
                      maintenance_schedules |-> EmptyDict]
    /\ pc = "idle"
    /\ handler = "none"
    /\ cfg = {}
    /\ batchesLeft = 0
    /\ rowsLeft = 0
    /\ table = ""
    /\ \/ \E r \in HealthReadings :
             last = [kind |-> "health-reading", equipment_id |-> r.equipment_id,
                     metrics |-> r.metrics]
       \/ \E score \in StatusScores : last = [kind |-> "score", score |-> score]
    /\ fired = EmptyDict
    /\ arrivals = EmptyDict
    /\ hostlog = << >>

\* analyze_equipment_health(influxdb3_local, equipment_id, row)
HealthStep ==
    /\ last.kind = "health-reading"
    /\ last' = DictUpdate([kind |-> "analysed", equipment_id |-> last.equipment_id,
                           metrics |-> last.metrics],
                  analyze_equipment_health(last.equipment_id, last.metrics,
                                           maintenance.equipment_history))
    /\ maintenance' = [maintenance EXCEPT !.equipment_history = last'.history]
    /\ arrivals' = Arrive(arrivals, last'.equipment_id, last'.analysis)
    /\ UNCHANGED <<now, environ, last_alert_times, pc, handler, cfg, batchesLeft,
                   rowsLeft, table, fired, hostlog>>

\* get_health_status(health_score)
StatusStep ==
    /\ last.kind = "score"
    /\ last' = [kind |-> "status", score |-> last.score,
                status |-> get_health_status(last.score)]
    /\ UNCHANGED <<now, environ, arrivals, maintenance, last_alert_times, pc, handler, cfg, batchesLeft,
                   rowsLeft, table, fired, hostlog>>

\* predict_equipment_failure and update_maintenance_schedule for an analysis
\* with that score
PredictStep ==
    /\ last.kind = "status"
    /\ LET health_analysis == [health_score |-> last.score, status |-> last.status,
                               equipment_type |-> "pump"]
           failure_prediction == predict_equipment_failure("pump-1", health_analysis)
       IN last' = [kind |-> "predicted", score |-> last.score,
                   failure_prediction |-> failure_prediction,
                   maintenance_update |->
                       update_maintenance_schedule("pump-1", health_analysis, failure_prediction)]
    /\ UNCHANGED <<now, environ, arrivals, maintenance, last_alert_times, pc, handler, cfg, batchesLeft,
                   rowsLeft, table, fired, hostlog>>

NextHealth ==
    \/ HealthStep
    \/ StatusStep
    \/ PredictStep

SpecHealth == InitHealth /\ [][NextHealth]_vars

-----------------------------------------------------------------------------
(* The rolling history over many analyses: two pieces of equipment whose   *)
(* readings go through the four temperature bands in turn                  *)

HistoryIds == {"boiler-3", "pump-1"}

\* the temperature of the reading that follows k scored readings
ScheduledTemperature(id, k) ==
    LET max_temp == MaxTempOf(id)
    IN IF k % 4 = 0 THEN (8 * max_temp) \div 10
       ELSE IF k % 4 = 1 THEN (9 * max_temp) \div 10
       ELSE IF k % 4 = 2 THEN max_temp
       ELSE max_temp + 1

\* the number of readings scored so far
RECURSIVE ScoredSoFar(_, _)
ScoredSoFar(seen, ids) ==
    IF ids = {} THEN 0
    ELSE LET id == CHOOSE i \in ids : TRUE
         IN Len(DictGet(seen, Str(id), << >>)) + ScoredSoFar(seen, ids \ {id})

\* analyze_equipment_health on the next reading of an equipment, or on one
\* whose metric does not convert
HistoryStep ==
    /\ ScoredSoFar(arrivals, HistoryIds) < MaxArrivals
    /\ \E id \in HistoryIds, value \in {"scheduled", "n/a"} :
          /\ last' = DictUpdate(
                [kind |-> "analysed", equipment_id |-> Str(id), value |-> value],
                analyze_equipment_health(Str(id),
                    (FirstMetricOf(id) :>
                        (IF value = "scheduled"
                         THEN Num(ScheduledTemperature(id, Len(DictGet(arrivals, Str(id), << >>))))
                         ELSE Str(value)))
                    @@ [equipmentId |-> Str(id), location_id |-> Str("4")],
                    maintenance.equipment_history))
          /\ maintenance' = [maintenance EXCEPT !.equipment_history = last'.history]
          /\ arrivals' = Arrive(arrivals, last'.equipment_id, last'.analysis)
    /\ UNCHANGED <<now, environ, last_alert_times, pc, handler, cfg, batchesLeft,
                   rowsLeft, table, fired, hostlog>>

NextHistory == HistoryStep

SpecHistory == InitHost /\ [][NextHistory]_vars

-----------------------------------------------------------------------------
(* Two invocations of process_writes whose statements may interleave: each *)
(* hands one candidate to send_alert_notification, which runs statement by *)
(* statement on the shared last_alert_times                                *)

Invocations == {1, 2}

\* the rows the two invocations carry, each with the table of its batch: a
\* warning and a critical reading of one boiler, a warning reading of a pump
\* and a critical health score of the boiler
RaceReadings ==
    { [table |-> "metrics",
       row |-> Row([equipmentId |-> Str("boiler-3"), location_id |-> Str("4"), temperature |-> Num(181)])],
      [table |-> "metrics",
       row |-> Row([equipmentId |-> Str("boiler-3"), location_id |-> Str("4"), temperature |-> Num(201)])],
      [table |-> "metrics",
       row |-> Row([equipmentId |-> Str("pump-1"), location_id |-> Str("4"), temperature |-> Num(121)])],
      [table |-> "equipment_health",
       row |-> Row([equipment_id |-> Str("boiler-3"), location_id |-> Str("4"), health_score |-> Num(19)])] }

\* an invocation that has not been made yet
NotCalled == [pc |-> "idle"]

InitRace ==
    /\ now = 0
    /\ environ = {}
    /\ last_alert_times = EmptyDict
    /\ maintenance = [equipment_history |-> EmptyDict, failure_predictions |-> EmptyDict,
                      maintenance_schedules |-> EmptyDict]
    /\ pc = "idle"
    /\ handler = "alerts"
    /\ cfg = {"slack_webhook_url"}
    /\ batchesLeft = 0
    /\ rowsLeft = 0
    /\ table = "metrics"
    /\ last = [kind |-> "race", inv |-> [i \in Invocations |-> NotCalled], overlapped |-> FALSE]
    /\ fired = EmptyDict
    /\ arrivals = EmptyDict
    /\ hostlog = << >>

\* the invocation is inside send_alert_notification
InFlight(st) == st.pc \in {"timed", "admitted", "recorded"}

\* lines 105-107 (114-116 for a health row), 310-311: the row is evaluated,
\* the candidate handed in, its key built and the clock read
RaceCall(i) ==
    /\ last.inv[i].pc = "idle"
    /\ \E reading \in RaceReadings :
          LET alert == Evaluate(reading.table, reading.row).alert
          IN last' = [last EXCEPT
                        !.inv[i] = [pc |-> "timed", alert |-> alert, alert_key |-> AlertKey(alert),
                                    current_time |-> now],
                        !.overlapped = last.overlapped
                                       \/ \E j \in Invocations \ {i} : InFlight(last.inv[j])]
    /\ UNCHANGED <<now, environ, arrivals, maintenance, last_alert_times, pc, handler, cfg, batchesLeft,
                   rowsLeft, table, fired, hostlog>>

\* lines 313-319: the lookup of last_alert_times
RaceGate(i) ==
    /\ last.inv[i].pc = "timed"
    /\ last' = [last EXCEPT !.inv[i] =
                    IF InCooldown(last.inv[i].alert_key, last.inv[i].current_time, last_alert_times)
                    THEN DictUpdate(last.inv[i], [pc |-> "done", passed |-> FALSE, ret |-> FALSE])
                    ELSE DictUpdate(last.inv[i], [pc |-> "admitted"])]
    /\ UNCHANGED <<now, environ, arrivals, maintenance, last_alert_times, pc, handler, cfg, batchesLeft,
                   rowsLeft, table, fired, hostlog>>

\* line 322: the update of last_alert_times
RaceRecord(i) ==
    /\ last.inv[i].pc = "admitted"
    /\ last_alert_times' = RecordFire(last.inv[i].alert_key, last.inv[i].current_time, last_alert_times)
    /\ last' = [last EXCEPT !.inv[i] = DictUpdate(last.inv[i], [pc |-> "recorded"])]
    /\ UNCHANGED <<now, environ, arrivals, maintenance, pc, handler, cfg, batchesLeft,
                   rowsLeft, table, fired, hostlog>>

\* lines 324-347: the channels are called
RaceDispatch(i) ==
    /\ last.inv[i].pc = "recorded"
    /\ \E outs \in OutcomesFor(cfg, environ) :
          LET d == Dispatch(last.inv[i].alert, cfg, environ, outs)
          IN last' = [last EXCEPT !.inv[i] =
                        DictUpdate(last.inv[i],
                            [pc |-> "done", passed |-> TRUE,
                             ret |-> IF d.raised THEN FALSE ELSE d.ret, ev |-> d.ev])]
    /\ UNCHANGED <<now, environ, arrivals, maintenance, last_alert_times, pc, handler, cfg, batchesLeft,
                   rowsLeft, table, fired, hostlog>>

\* time passes
RaceTick ==
    /\ \E t \in Instants : t > now /\ now' = t
    /\ UNCHANGED <<environ, arrivals, maintenance, last_alert_times, pc, handler, cfg, batchesLeft,
                   rowsLeft, table, last, fired, hostlog>>

NextRace ==
    \/ \E i \in Invocations : RaceCall(i)
    \/ \E i \in Invocations : RaceGate(i)
    \/ \E i \in Invocations : RaceRecord(i)
    \/ \E i \in Invocations : RaceDispatch(i)
    \/ RaceTick

SpecRace == InitRace /\ [][NextRace]_vars

-----------------------------------------------------------------------------
(* Energy optimization plugin.  Power is in thousandths of a kW.  The      *)
(* dollar and carbon figures, on which no branch of the handler depends,   *)
(* are left out of the records.                                            *)

\* kW, in thousandths
OPTIMIZATION_THRESHOLDS == [peak_demand_limit |-> 500 * 1000]

\* min and max in tenths of a kW, efficiency in percent
EQUIPMENT_POWER_BASELINES ==
    ("boiler" :> [min |-> 50, max |-> 500, efficiency |-> 85])
    @@ ("chiller" :> [min |-> 100, max |-> 1000, efficiency |-> 75])
    @@ ("air-handler" :> [min |-> 20, max |-> 250, efficiency |-> 80])
    @@ ("pump" :> [min |-> 10, max |-> 150, efficiency |-> 70])
    @@ ("fancoil" :> [min |-> 5, max |-> 50, efficiency |-> 75])
    @@ ("lighting" :> [min |-> 1, max |-> 20, efficiency |-> 90])

\* hours of the day of each rate period
ENERGY_RATES ==
    [peak |-> {14, 15, 16, 17, 18, 19},
     off_peak |-> {22, 23, 0, 1, 2, 3, 4, 5},
     shoulder |-> {6, 7, 8, 9, 10, 11, 12, 13, 20, 21}]

energy_determine_equipment_type(equipment_id) ==
    LET equipment_id_lower == Lower(equipment_id)
    IN IF Contains("boiler", equipment_id_lower) THEN "boiler"
       ELSE IF Contains("chiller", equipment_id_lower) THEN "chiller"
       ELSE IF Contains("pump", equipment_id_lower) THEN "pump"
       ELSE IF Contains("ahu", equipment_id_lower) \/ Contains("air", equipment_id_lower) THEN "air-handler"
       ELSE IF Contains("fancoil", equipment_id_lower) \/ Contains("fan", equipment_id_lower) THEN "fancoil"
       ELSE IF Contains("light", equipment_id_lower) THEN "lighting"
       ELSE "unknown"

\* round(n / d) for n >= 0 and d > 0
RoundDiv(n, d) ==
    LET q == n \div d
        r == n % d
    IN IF 2 * r > d \/ (2 * r = d /\ q % 2 = 1) THEN q + 1 ELSE q

Minimum(a, b) == IF a <= b THEN a ELSE b
Maximum(a, b) == IF a >= b THEN a ELSE b

\* 70% load between min and max, divided by the efficiency, rounded to 0.01 kW
calculate_equipment_power_consumption(equipment_type) ==
    LET baseline == DictGet(EQUIPMENT_POWER_BASELINES, equipment_type,
                            [min |-> 10, max |-> 100, efficiency |-> 75])
        estimated_power == baseline.min * 10 + (baseline.max - baseline.min) * 7
    IN 10 * RoundDiv(estimated_power * 100, baseline.efficiency)

\* h is hash(equipmentId) % 10, which differs from one interpreter to the next
calculate_equipment_efficiency(equipment_type, h) ==
    LET baseline == DictGet(EQUIPMENT_POWER_BASELINES, equipment_type, [efficiency |-> 75])
    IN Maximum(50, Minimum(100, baseline.efficiency + (h - 5)))

get_current_rate_period(hour) ==
    IF hour \in ENERGY_RATES.peak THEN "peak"
    ELSE IF hour \in ENERGY_RATES.off_peak THEN "off_peak"
    ELSE "shoulder"

\* tenths, by month: summer 1.2, winter 1.1, otherwise 1.0
get_seasonal_factor(month) ==
    IF month \in {6, 7, 8, 9} THEN 12
    ELSE IF month \in {12, 1, 2} THEN 11
    ELSE 10

\* equipment_consumption[equipment_id] = {...}: the dict in insertion order
SetConsumption(breakdown, entry) ==
    IF \E i \in 1..Len(breakdown) : breakdown[i].equipment_id = entry.equipment_id
    THEN [i \in 1..Len(breakdown) |->
            IF breakdown[i].equipment_id = entry.equipment_id THEN entry ELSE breakdown[i]]
    ELSE Append(breakdown, entry)

\* lines 225-240: the loop over the rows of one location; hashes gives
\* hash(id) % 10 of each equipment id
RECURSIVE ConsumptionOf(_, _)
ConsumptionOf(equipment_data, hashes) ==
    IF equipment_data = << >>
    THEN [total_power_kw |-> 0, equipment_breakdown |-> << >>]
    ELSE LET before == ConsumptionOf(SubSeq(equipment_data, 1, Len(equipment_data) - 1), hashes)
             equipment == equipment_data[Len(equipment_data)]
             equipment_id == DictGet(equipment.items, "equipmentId", Str("")).s
             equipment_type == energy_determine_equipment_type(equipment_id)
             power_consumption == calculate_equipment_power_consumption(equipment_type)
         IN [total_power_kw |-> before.total_power_kw + power_consumption,
             equipment_breakdown |->
                 SetConsumption(before.equipment_breakdown,
                     [equipment_id |-> equipment_id, power_kw |-> power_consumption,
                      type |-> equipment_type,
                      efficiency |-> calculate_equipment_efficiency(equipment_type,
                                                                    hashes[equipment_id])])]

\* lines 212-264
analyze_energy_consumption(location_id, equipment_data, hashes) ==
    DictUpdate(ConsumptionOf(equipment_data, hashes), [location_id |-> location_id])

\* tenths
hourly_factors ==
    [h \in 0..23 |->
        IF h \in {1, 2, 3, 4} THEN 5
        ELSE IF h \in {0, 5, 21, 22, 23} THEN 6
        ELSE IF h \in {6, 19, 20} THEN 7
        ELSE IF h \in {7, 18} THEN 8
        ELSE IF h \in {8, 17} THEN 9
        ELSE IF h \in {14, 15} THEN 11
        ELSE 10]

\* lines 267-338: the 24 hours from current_hour on; the peak is the largest
\* adjusted demand, rounded to 0.01 kW
forecast_energy_demand(location_id, consumption_analysis, current_hour, month) ==
    LET current_power == consumption_analysis.total_power_kw
        forecast_hour(hour_offset) == (current_hour + hour_offset) % 24
        adjusted(hour) == current_power * hourly_factors[hour] * get_seasonal_factor(month)
        best == CHOOSE h \in 0..23 : \A g \in 0..23 : adjusted(g) <= adjusted(h)
    IN [location_id |-> location_id,
        peak_demand_kw |-> 10 * RoundDiv(adjusted(best), 1000),
        hourly_forecast |-> [i \in 1..24 |->
                                [hour |-> forecast_hour(i - 1),
                                 rate_period |-> get_current_rate_period(forecast_hour(i - 1))]]]

\* sorted(..., key=power_kw, reverse=True): stable, equal powers keep their order
RECURSIVE SortedByPower(_)
SortedByPower(items) ==
    IF items = << >> THEN << >>
    ELSE LET rest == SortedByPower(SubSeq(items, 1, Len(items) - 1))
             x == items[Len(items)]
             ahead == Cardinality({i \in 1..Len(rest) : rest[i].power_kw >= x.power_kw})
         IN SubSeq(rest, 1, ahead) \o << x >> \o SubSeq(rest, ahead + 1, Len(rest))

\* variant: every piece of equipment visited sheds its full 20%
RECURSIVE ShedFrom_uncapped(_, _, _)
ShedFrom_uncapped(equipment_priority, reduction_achieved, target_reduction) ==
    IF equipment_priority = << >> \/ reduction_achieved >= target_reduction
    THEN << >>
    ELSE LET data == Head(equipment_priority)
             reduction_amount == data.power_kw \div 5
         IN << [equipment_id |-> data.equipment_id, command_type |-> "load_reduction",
                reduction_amount_kw |-> reduction_amount, duration_minutes |-> 60] >>
            \o ShedFrom_uncapped(Tail(equipment_priority), reduction_achieved + reduction_amount,
                                 target_reduction)

\* lines 665-680: the loop over the prioritised equipment
RECURSIVE ShedFrom(_, _, _)
ShedFrom(equipment_priority, reduction_achieved, target_reduction) ==
    IF equipment_priority = << >> \/ reduction_achieved >= target_reduction
    THEN << >>
    ELSE LET data == Head(equipment_priority)
             reduction_amount == Minimum(data.power_kw \div 5, target_reduction - reduction_achieved)
         IN << [equipment_id |-> data.equipment_id, command_type |-> "load_reduction",
                reduction_amount_kw |-> reduction_amount, duration_minutes |-> 60] >>
            \o ShedFrom(Tail(equipment_priority), reduction_achieved + reduction_amount,
                        target_reduction)

\* lines 652-682
generate_peak_shaving_strategy(equipment_breakdown, peak_demand) ==
    ShedFrom(SortedByPower(equipment_breakdown), 0,
             peak_demand - OPTIMIZATION_THRESHOLDS.peak_demand_limit)

\* lines 684-727: every shiftable piece of equipment with each of the first
\* three peak hours and each of the first three off-peak hours of the forecast
identify_load_shifting_opportunities(demand_forecast, equipment_breakdown) ==
    LET hourly_forecast == DictGet(demand_forecast, "hourly_forecast", << >>)
        peak_hours == SelectSeq(hourly_forecast, LAMBDA d : d.rate_period = "peak")
        off_peak_hours == SelectSeq(hourly_forecast, LAMBDA d : d.rate_period = "off_peak")
        shiftable_equipment == SelectSeq(equipment_breakdown, LAMBDA d : d.type \in {"lighting", "pump"})
        np == Minimum(3, Len(peak_hours))
        no == Minimum(3, Len(off_peak_hours))
    IN [k \in 1..(Len(shiftable_equipment) * np * no) |->
            LET e == ((k - 1) \div (np * no)) + 1
                p == (((k - 1) % (np * no)) \div no) + 1
                o == ((k - 1) % no) + 1
            IN [equipment_id |-> shiftable_equipment[e].equipment_id,
                shift_from_hour |-> peak_hours[p].hour,
                shift_to_hour |-> off_peak_hours[o].hour,
                power_kw |-> shiftable_equipment[e].power_kw]]

\* lines 729-746: the five opportunities that save most (the saving is the
\* power times a constant)
generate_load_shifting_strategy(opportunities) ==
    LET sorted_opportunities == SortedByPower(opportunities)
    IN [k \in 1..Minimum(5, Len(sorted_opportunities)) |->
            [equipment_id |-> sorted_opportunities[k].equipment_id,
             command_type |-> "load_shift",
             shift_from_hour |-> sorted_opportunities[k].shift_from_hour,
             shift_to_hour |-> sorted_opportunities[k].shift_to_hour,
             duration_minutes |-> 60]]

\* lines 748-770
identify_efficiency_improvements(equipment_breakdown) ==
    SelectSeq(equipment_breakdown, LAMBDA d : d.efficiency < 75)

\* lines 772-785
generate_efficiency_improvement_strategy(improvements) ==
    [k \in 1..Len(improvements) |->
        [equipment_id |-> improvements[k].equipment_id,
         command_type |-> "efficiency_optimization",
         target_efficiency |-> 80]]

\* the strategy returned when generate_optimization_strategy caught an exception
NoStrategy == [strategy_type |-> "none", commands |-> << >>]

\* the element of the list that is the strategy holding the list
ItsOwnStrategy(strategy_type) == [strategy_type |-> strategy_type, commands |-> "itself"]

\* lines 345-395: the strategy as built before it is stored; shaving is what
\* generate_peak_shaving_strategy returned at line 358
StrategyBuilt(location_id, consumption_analysis, demand_forecast) ==
    LET peak_demand == DictGet(demand_forecast, "peak_demand_kw", 0)
        equipment_breakdown == DictGet(consumption_analysis, "equipment_breakdown", << >>)
        needed == peak_demand > OPTIMIZATION_THRESHOLDS.peak_demand_limit
        peak_shaving_commands == IF needed
                                 THEN generate_peak_shaving_strategy(equipment_breakdown, peak_demand)
                                 ELSE << >>
        load_shifting_commands ==
            generate_load_shifting_strategy(
                identify_load_shifting_opportunities(demand_forecast, equipment_breakdown))
        efficiency_commands ==
            generate_efficiency_improvement_strategy(identify_efficiency_improvements(equipment_breakdown))
        first == IF needed THEN "peak_shaving" ELSE "none"
        second == IF load_shifting_commands = << >> THEN first
                  ELSE IF first = "none" THEN "load_shifting" ELSE "combined"
        strategy_type == IF efficiency_commands = << >> THEN second
                         ELSE IF second = "none" THEN "efficiency" ELSE "comprehensive"
    IN [strategy |-> [location_id |-> location_id, strategy_type |-> strategy_type,
                      commands |-> peak_shaving_commands \o load_shifting_commands
                                   \o efficiency_commands],
        shaving |-> peak_shaving_commands, needed |-> needed,
        raised |-> FALSE, ev |-> << >>]

\* lines 340-406.  optimization_commands is the local list of line 349, so
\* line 398 indexes that list with location_id: a TypeError for a string, an
\* IndexError for an integer outside the list, and otherwise the element at
\* that index becomes the strategy itself.
generate_optimization_strategy(location_id, consumption_analysis, demand_forecast) ==
    LET g == StrategyBuilt(location_id, consumption_analysis, demand_forecast)
        optimization_commands == g.strategy.commands
        index == IF location_id.n >= 0 THEN location_id.n + 1
                 ELSE Len(optimization_commands) + location_id.n + 1
    IN IF location_id.t = "num" /\ index \in 1..Len(optimization_commands)
       THEN [g EXCEPT !.strategy.commands =
                        [optimization_commands EXCEPT ![index] = ItsOwnStrategy(g.strategy.strategy_type)]]
       ELSE [g EXCEPT !.strategy = NoStrategy, !.raised = TRUE,
                      !.ev = << ErrorLog("generate_optimization_strategy") >>]

\* lines 831-853; a load_reduction command has no max_safe_reduction, so its
\* reduction is compared with 999 kW
validate_optimization_command_safety(command) ==
    LET command_type == DictGet(command, "command_type", "")
    IN IF command_type = "load_reduction"
       THEN DictGet(command, "reduction_amount_kw", 0) <= 999 * 1000
       ELSE IF command_type = "load_shift"
       THEN LET d == DictGet(command, "shift_from_hour", 0) - DictGet(command, "shift_to_hour", 0)
            IN (IF d < 0 THEN -d ELSE d) <= 12
       ELSE command_type = "efficiency_optimization"

\* lines 866-888: the record of one applied command
write_optimization_command(location_id, command) ==
    << Write([measurement |-> "optimization_commands",
              tags |-> [location_id |-> location_id,
                        equipment_id |-> DictGet(command, "equipment_id", "unknown"),
                        command_type |-> DictGet(command, "command_type", "unknown")]], TRUE) >>

\* lines 408-450
RECURSIVE implement_optimization_commands(_, _)
implement_optimization_commands(location_id, commands) ==
    IF commands = << >>
    THEN [applied_commands |-> << >>, failed_commands |-> << >>, ev |-> << >>]
    ELSE LET before == implement_optimization_commands(location_id,
                                                       SubSeq(commands, 1, Len(commands) - 1))
             command == commands[Len(commands)]
         IN IF validate_optimization_command_safety(command)
            THEN [before EXCEPT !.applied_commands = Append(@, command),
                                !.ev = @ \o write_optimization_command(location_id, command)]
            ELSE [before EXCEPT !.failed_commands = Append(@, command),
                                !.ev = Append(@, WarningLog("implement_optimization_commands"))]

\* lines 491-568: the four records of one location
write_energy_analytics(location_id, consumption_analysis, demand_forecast, optimization_strategy) ==
    << Write([measurement |-> "energy_consumption",
              tags |-> [location_id |-> location_id],
              total_power_kw |-> DictGet(consumption_analysis, "total_power_kw", 0)], TRUE),
       Write([measurement |-> "demand_forecast",
              tags |-> [location_id |-> location_id],
              peak_demand_kw |-> DictGet(demand_forecast, "peak_demand_kw", 0)], TRUE),
       Write([measurement |-> "optimization_strategy",
              tags |-> [location_id |-> location_id,
                        strategy_type |-> DictGet(optimization_strategy, "strategy_type", "none")],
              commands_count |-> Len(DictGet(optimization_strategy, "commands", << >>))], TRUE),
       Write([measurement |-> "carbon_footprint",
              tags |-> [location_id |-> location_id]], TRUE) >>

-----------------------------------------------------------------------------
(* The energy plugin on its own: one metrics batch of one location, taken  *)
(* through process_writes call by call                                     *)

MaxChillers == 6

Chillers(n) == [i \in 1..n |-> CASE i = 1 -> "chiller-1" [] i = 2 -> "chiller-2"
                                 [] i = 3 -> "chiller-3" [] i = 4 -> "chiller-4"
                                 [] i = 5 -> "chiller-5" [] OTHER -> "chiller-6"]

\* the equipment of the location, in the order of its rows: some chillers,
\* with a boiler and a pump before or after them
EnergyFleets ==
    UNION { { Chillers(c) \o others, others \o Chillers(c) } :
              c \in 0..MaxChillers,
              others \in {<< >>, << "pump-1" >>, << "pump-1", "boiler-1" >>} }

\* the location id of the rows: a tag value or an integer field
EnergyLocations == {Str("4"), Num(1)}

\* hash(id) % 10: chiller-1 falls below its baseline or not
EnergyHashes ==
    { [id \in {"chiller-1", "chiller-2", "chiller-3", "chiller-4", "chiller-5", "chiller-6",
               "pump-1", "boiler-1"} |-> IF id = "chiller-1" THEN h ELSE 5] : h \in {0, 5} }

\* datetime.now(): the hour and the month
EnergyHours == {0, 15}
EnergyMonths == {4, 7, 12}

InitEnergy ==
    /\ now = 0
    /\ environ = {}
    /\ last_alert_times = EmptyDict
    /\ maintenance = [equipment_history |-> EmptyDict, failure_predictions |-> EmptyDict,
                      maintenance_schedules |-> EmptyDict]
    /\ pc = "running"
    /\ handler = "energy"
    /\ cfg = {}
    /\ batchesLeft = 0
    /\ rowsLeft = 0
    /\ table = "metrics"
    /\ \E fleet \in EnergyFleets, location_id \in EnergyLocations, hashes \in EnergyHashes,
          hour \in EnergyHours, month \in EnergyMonths :
          last = [kind |-> "energy-location", location_id |-> location_id,
                  equipment_data |-> [i \in 1..Len(fleet) |->
                                         Row([equipmentId |-> Str(fleet[i]), location_id |-> location_id])],
                  hashes |-> hashes, hour |-> hour, month |-> month]
    /\ fired = EmptyDict
    /\ arrivals = EmptyDict
    /\ hostlog = << >>

\* line 186
EnergyAnalyze ==
    /\ last.kind = "energy-location"
    /\ last' = DictUpdate(last,
                  [kind |-> "energy-analysed",
                   consumption_analysis |->
                       analyze_energy_consumption(last.location_id, last.equipment_data, last.hashes)])
    /\ UNCHANGED <<now, environ, arrivals, maintenance, last_alert_times, pc, handler, cfg, batchesLeft,
                   rowsLeft, table, fired, hostlog>>

\* line 190
EnergyForecast ==
    /\ last.kind = "energy-analysed"
    /\ last' = DictUpdate(last,
                  [kind |-> "energy-forecast",
                   demand_forecast |->
                       forecast_energy_demand(last.location_id, last.consumption_analysis,
                                              last.hour, last.month)])
    /\ UNCHANGED <<now, environ, arrivals, maintenance, last_alert_times, pc, handler, cfg, batchesLeft,
                   rowsLeft, table, fired, hostlog>>

\* line 193
EnergyStrategy ==
    /\ last.kind = "energy-forecast"
    /\ last' = DictUpdate(last,
                  [kind |-> "energy-strategy",
                   generated |-> generate_optimization_strategy(last.location_id,
                                     last.consumption_analysis, last.demand_forecast)])
    /\ UNCHANGED <<now, environ, arrivals, maintenance, last_alert_times, pc, handler, cfg, batchesLeft,
                   rowsLeft, table, fired, hostlog>>

\* lines 196-205: the commands of the strategy, if it has any, are
\* implemented, and the analytics of the location are written
EnergyImplement ==
    /\ last.kind = "energy-strategy"
    /\ LET optimization_strategy == last.generated.strategy
           results == IF optimization_strategy.commands # << >>
                      THEN implement_optimization_commands(Format(last.location_id),
                                                           optimization_strategy.commands)
                      ELSE [applied_commands |-> << >>, failed_commands |-> << >>, ev |-> << >>]
       IN last' = DictUpdate(last,
                     [kind |-> "energy-done",
                      implemented |-> optimization_strategy.commands # << >>,
                      handed |-> optimization_strategy.commands,
                      applied_commands |-> results.applied_commands,
                      ev |-> last.generated.ev \o results.ev
                             \o write_energy_analytics(Format(last.location_id),
                                    last.consumption_analysis, last.demand_forecast,
                                    optimization_strategy)])
    /\ pc' = "returned"
    /\ UNCHANGED <<now, environ, arrivals, maintenance, last_alert_times, handler, cfg, batchesLeft,
                   rowsLeft, table, fired, hostlog>>

NextEnergy ==
    \/ EnergyAnalyze
    \/ EnergyForecast
    \/ EnergyStrategy
    \/ EnergyImplement

SpecEnergy == InitEnergy /\ [][NextEnergy]_vars

-----------------------------------------------------------------------------
(* Properties *)

\* the row step just taken handed a candidate to send_alert_notification
Sent == last.kind = "alerts" /\ last.sent

\* ... and the candidate got past the cooldown gate
Passed == last.kind = "alerts" /\ last.sent /\ last.passed

IsPost(e) == e.e = "post"
IsPostOn(e, ch) == e.e = "post" /\ e.ch = ch
IsWrite(e) == e.e = "write"
IsSleep(e) == e.e = "sleep"

\* the positions in ev of the events that satisfy Test
Positions(ev, Test(_)) == {i \in 1..Len(ev) : Test(ev[i])}

\* the channels the running call has a destination for
ChannelConfigured(ch) ==
    IF ch = "api" THEN "recipient_email" \in cfg \/ "DEFAULT_RECIPIENT" \in environ
    ELSE IF ch = "slack" THEN "slack_webhook_url" \in cfg \/ "SLACK_WEBHOOK_URL" \in environ
    ELSE "discord_webhook_url" \in cfg \/ "DISCORD_WEBHOOK_URL" \in environ

\* C1: a candidate is let through exactly when its subject and kind were never
\* let through before, or were last let through at least 300 s earlier; it is
\* suppressed, returning false, when less than 300 s have elapsed.
CooldownGate ==
    Sent =>
        LET k == SubjectKind(last.alert)
        IN /\ last.passed <=> (k \notin DOMAIN last.prior \/ last.time - last.prior[k] >= 300)
           /\ ~last.passed => ~last.ret

\* a candidate let through exactly one window after the last one of its key
CooldownGateWitness ==
    /\ Passed
    /\ SubjectKind(last.alert) \in DOMAIN last.prior
    /\ last.time - last.prior[SubjectKind(last.alert)] = 300

\* C2: a metrics reading with string ids and numeric temperature v of a
\* category with thresholds C > H gives one CRITICAL HIGH_TEMPERATURE candidate
\* with threshold C and value v when v > C, one WARNING candidate with
\* threshold H when H < v <= C, and no candidate when v <= H.
ThresholdEvaluation ==
    (last.kind = "evaluated" /\ last.table = "metrics") =>
        LET items == last.row.items
            category == determine_equipment_type(items.equipmentId.s)
            v == items.temperature.n
            alert == last.result.alert
        IN category \in DOMAIN EQUIPMENT_ALERT_THRESHOLDS =>
            LET C == EQUIPMENT_ALERT_THRESHOLDS[category].critical_temp
                H == EQUIPMENT_ALERT_THRESHOLDS[category].high_temp
            IN C > H =>
                IF v > C
                THEN /\ alert # NoneV
                     /\ alert.severity = "CRITICAL" /\ alert.type = "HIGH_TEMPERATURE"
                     /\ alert.threshold = C /\ alert.value = v
                ELSE IF v > H
                THEN /\ alert # NoneV
                     /\ alert.severity = "WARNING" /\ alert.type = "HIGH_TEMPERATURE"
                     /\ alert.threshold = H /\ alert.value = v
                ELSE alert = NoneV

\* a reading exactly at the critical threshold is only a warning
ThresholdEvaluationWitness ==
    /\ last.kind = "evaluated" /\ last.table = "metrics"
    /\ last.row.items.equipmentId = Str("boiler-3")
    /\ last.row.items.temperature = Num(200)
    /\ last.result.alert # NoneV
    /\ last.result.alert.severity = "WARNING"

\* C3: for a candidate past the gate, send_alert_notification returns true
\* exactly when at least one of the API, Slack and Discord channels returned
\* true, and false when all failed or none was attempted.
AnyChannelSuccess ==
    Passed => (last.ret <=> (last.chan.api \/ last.chan.slack \/ last.chan.discord))

\* the last channel alone delivers, after the other two were tried and failed
AnyChannelSuccessWitness ==
    /\ Passed /\ last.ret
    /\ ~last.chan.api /\ ~last.chan.slack /\ last.chan.discord
    /\ Positions(last.ev, LAMBDA e : IsPostOn(e, "api")) # {}
    /\ Positions(last.ev, LAMBDA e : IsPostOn(e, "slack")) # {}

\* C4: once a candidate is past the gate every configured channel is
\* attempted, whatever the other channels' attempts did, and no channel's
\* failure reaches send_alert_notification's own handler.
ChannelIsolation ==
    Passed =>
        /\ \A ch \in {"api", "slack", "discord"} :
              ChannelConfigured(ch) => Positions(last.ev, LAMBDA e : IsPostOn(e, ch)) # {}
        /\ \A i \in 1..Len(last.ev) : last.ev[i] # ErrorLog("send_alert_notification")

\* every attempt of the first two channels raised and the third was still made
ChannelIsolationWitness ==
    /\ Passed
    /\ \A ch \in {"api", "slack", "discord"} : ChannelConfigured(ch)
    /\ \A i \in 1..Len(last.ev) :
          (IsPost(last.ev[i]) /\ last.ev[i].ch # "discord") => last.ev[i].outcome = "exc"
    /\ Positions(last.ev, LAMBDA e : IsPostOn(e, "discord")) # {}

\* the number of API attempts made before position i of ev
AttemptsBefore(ev, i) == Cardinality({p \in 1..(i - 1) : IsPostOn(ev[p], "api")})

\* C7: the API channel makes at most 3 attempts, stops at the first
\* success, retries after every failed attempt while attempts remain, and
\* sleeps 2^k seconds between failed attempt k and the retry that follows it;
\* Slack and Discord make one attempt each.
RetryPolicy ==
    Passed =>
        LET ev == last.ev
            api == Positions(ev, LAMBDA e : IsPostOn(e, "api"))
        IN /\ Cardinality(api) <= 3
           /\ \A i \in api : ApiAccepted(ev[i].outcome) => \A j \in api : j <= i
           /\ \A i \in api : (~ApiAccepted(ev[i].outcome) /\ AttemptsBefore(ev, i) < 2)
                                => \E j \in api : j > i
           /\ \A i \in api, j \in api :
                 (i < j /\ AttemptsBefore(ev, j) = AttemptsBefore(ev, i) + 1)
                    => \E m \in (i + 1)..(j - 1) :
                          IsSleep(ev[m]) /\ ev[m].d = 2 ^ AttemptsBefore(ev, i)
           /\ \A ch \in {"slack", "discord"} :
                 Cardinality(Positions(ev, LAMBDA e : IsPostOn(e, ch)))
                    = (IF ChannelConfigured(ch) THEN 1 ELSE 0)

\* the alert_history writes of the row step just taken
HistoryWrites == Positions(last.ev, IsWrite)

\* the record carries the candidate's kind, severity and subject
TaggedFor(rec, alert) ==
    /\ rec.measurement = "alert_history"
    /\ rec.tags.alert_type = Str(alert.type)
    /\ rec.tags.severity = Str(alert.severity)
    /\ \A k \in {"equipment_id", "location_id"} \cap DOMAIN alert : rec.tags[k] = alert[k]

HistoryFailureOnlyLogged ==
    (Passed /\ \E i \in HistoryWrites : ~last.ev[i].ok) =>
        /\ last.ret <=> (last.chan.api \/ last.chan.slack \/ last.chan.discord)
        /\ last.key \in DOMAIN last_alert_times
        /\ last_alert_times[last.key] = last.time
        /\ \E i \in 1..Len(last.ev) : last.ev[i] = ErrorLog("write_alert_history")
        /\ \A i \in 1..Len(last.ev) : last.ev[i] # ErrorLog("send_alert_notification")

\* a delivered notification whose history write raised
HistoryFailureOnlyLoggedWitness ==
    /\ Passed /\ last.ret
    /\ \E i \in HistoryWrites : ~last.ev[i].ok

\* C10: a suppressed candidate causes no HTTP call and no history write; for
\* a candidate past the gate the history write comes after every HTTP call.
PipelineOrder ==
    Sent =>
        /\ ~last.passed => (Positions(last.ev, IsPost) = {} /\ HistoryWrites = {})
        /\ last.passed => \A i \in HistoryWrites, j \in Positions(last.ev, IsPost) : j < i

\* a candidate past the gate, posted on two channels and then recorded
PipelineOrderWitness ==
    /\ Passed
    /\ Positions(last.ev, LAMBDA e : IsPostOn(e, "api")) # {}
    /\ Positions(last.ev, LAMBDA e : IsPostOn(e, "discord")) # {}
    /\ HistoryWrites # {}

\* C11: a row step whose candidate is suppressed by the cooldown gate leaves
\* every entry of last_alert_times as it was, so the stored time of the
\* candidate's key is still the time its subject and kind were last let through.
SuppressionKeepsTimes ==
    [][(last'.kind = "alerts" /\ last'.sent /\ ~last'.passed) =>
          /\ last_alert_times' = last_alert_times
          /\ last'.key \in DOMAIN last_alert_times'
          /\ last_alert_times'[last'.key] = fired'[SubjectKind(last'.alert)]]_vars

\* a candidate suppressed 299 s after the fire whose time is still the stored one
SuppressionKeepsTimesWitness ==
    /\ Sent /\ ~last.passed
    /\ last_alert_times[last.key] = 0
    /\ last.time = 299

\* C12: a candidate past the gate has its key's time set to the time of the
\* call whatever the channels then did, and when its dispatch delivered on no
\* channel the same reading handed in again less than 300 s later is
\* suppressed: nothing is posted for it and false is returned.
FailedDispatchStillCools ==
    /\ (last.kind \in {"notified", "renotified"} /\ last.first.sent /\ last.first.passed) =>
          /\ last.first.key \in DOMAIN last.first.times
          /\ last.first.times[last.first.key] = last.first.time
          /\ last.first.key \in DOMAIN last_alert_times
    /\ (last.kind = "notified" /\ last.first.sent /\ last.first.passed) =>
          last_alert_times[last.first.key] = last.first.time
    /\ (last.kind = "renotified" /\ last.first.sent /\ last.first.passed /\ ~last.first.ret
           /\ last.second.time - last.first.time < alert_cooldown_minutes * 60) =>
          /\ last.second.sent /\ ~last.second.passed /\ ~last.second.ret
          /\ Positions(last.second.ev, IsPost) = {}
          /\ last_alert_times[last.first.key] = last.first.time

\* three failed API attempts at time 0, and the same reading suppressed at 299
FailedDispatchStillCoolsWitness ==
    /\ last.kind = "renotified"
    /\ last.first.passed /\ ~last.first.ret
    /\ Cardinality(Positions(last.first.ev, LAMBDA e : IsPostOn(e, "api"))) = retry_attempts
    /\ last.second.time = 299
    /\ ~last.second.passed

\* the function that serves a channel
Sender(ch) ==
    IF ch = "api" THEN "send_resend_notification"
    ELSE IF ch = "slack" THEN "send_slack_notification"
    ELSE "send_discord_notification"

\* the warning and error lines of ev that the channel's function logged
Complaints(ev, ch) ==
    {i \in 1..Len(ev) : ev[i].e = "log" /\ ev[i].level \in {"warning", "error"}
                           /\ ev[i].who = Sender(ch)}

\* C13: for a candidate past the gate, a channel without destination in both
\* the trigger arguments and the environment makes no HTTP attempt, logs no
\* warning or error, and does not count as delivered.
UnconfiguredChannelSilent ==
    Passed =>
        \A ch \in {"api", "slack", "discord"} :
            ~ChannelConfigured(ch) =>
                /\ Positions(last.ev, LAMBDA e : IsPostOn(e, ch)) = {}
                /\ ~last.chan[ch]
                /\ Complaints(last.ev, ch) = {}

\* an attempt on channel ch was answered with outcome o
Answered(ev, ch, o) == \E i \in 1..Len(ev) : IsPostOn(ev[i], ch) /\ ev[i].outcome = o

\* C14: for a candidate past the gate the API channel returns true exactly
\* when an attempt was answered with HTTP 200 and a JSON body carrying a
\* message identifier, Slack exactly for HTTP 200, Discord exactly for HTTP 204.
ChannelContracts ==
    Passed =>
        /\ last.chan.api <=> Answered(last.ev, "api", "200")
        /\ last.chan.slack <=> Answered(last.ev, "slack", "200")
        /\ last.chan.discord <=> Answered(last.ev, "discord", "204")

\* the row is a mapping in which field is absent, None or empty
Missing(row, field) == row.mapping /\ ~Truthy(DictGet(row.items, field, NoneV))

\* the alert engine and the maintenance plugin skipped the row of the step:
\* no candidate, no analysis, no event, both module maps as they were
SkippedByEvaluators ==
    /\ (/\ last'.kind = "alerts"
        /\ \/ table = "metrics" /\ (Missing(last'.row, "equipmentId") \/ Missing(last'.row, "location_id"))
           \/ table = "equipment_health" /\ Missing(last'.row, "equipment_id"))
          => /\ ~last'.sent /\ last'.alert = NoneV /\ last'.ev = << >>
             /\ last_alert_times' = last_alert_times
             /\ maintenance' = maintenance
             /\ pc' = pc /\ hostlog' = hostlog
    /\ (/\ last'.kind = "maintenance"
        /\ (Missing(last'.row, "equipmentId") \/ Missing(last'.row, "location_id")))
          => /\ ~last'.analysed /\ ~last'.raised /\ last'.ev = << >>
             /\ last_alert_times' = last_alert_times
             /\ maintenance' = maintenance
             /\ pc' = pc /\ hostlog' = hostlog

\* row i of the batch just grouped is in some group of the controller
Grouped(i) ==
    \E g \in 1..Len(last'.groups) : \E m \in 1..Len(last'.groups[g].metrics) :
        last'.groups[g].metrics[m] = last'.rows[i]

GateAndDispatch ==
    /\ last.kind \in {"notified", "renotified"} =>
          /\ last.first.sent <=> (last.result.alert # NoneV)
          /\ last.first.sent =>
                /\ last.first.passed
                /\ last.first.alert = last.result.alert
                /\ \A ch \in {"api", "slack", "discord"} :
                      ChannelConfigured(ch) =>
                         Positions(last.first.ev, LAMBDA e : IsPostOn(e, ch)) # {}
    /\ last.kind = "renotified" =>
          /\ last.second.sent <=> (last.result.alert # NoneV)
          /\ last.second.sent =>
                /\ last.second.passed
                      <=> (last.second.time - last.first.time >= alert_cooldown_minutes * 60)
                /\ ~last.second.passed => Positions(last.second.ev, IsPost) = {}

\* C16: an equipment_health row with an equipment id and a numeric health
\* score s gives a candidate of source predictive_maintenance exactly when
\* s < 40: CRITICAL EQUIPMENT_HEALTH_CRITICAL with threshold 20 when s < 20,
\* WARNING EQUIPMENT_HEALTH_LOW with threshold 40 when 20 <= s < 40, none when
\* s >= 40; the candidate goes through the gate and the channels as a
\* threshold candidate does.
HealthScoreAlerts ==
    /\ (/\ last.kind \in {"evaluated", "notified", "renotified"}
        /\ last.table = "equipment_health"
        /\ ~Missing(last.row, "equipment_id")
        /\ "health_score" \in DOMAIN last.row.items
        /\ IsNumber(last.row.items.health_score)) =>
          LET score == last.row.items.health_score.n
              alert == last.result.alert
          IN IF score < 20
             THEN /\ alert # NoneV
                  /\ alert.severity = "CRITICAL" /\ alert.type = "EQUIPMENT_HEALTH_CRITICAL"
                  /\ alert.threshold = 20 /\ alert.value = score
                  /\ alert.source = "predictive_maintenance"
                  /\ alert.equipment_id = last.row.items.equipment_id
             ELSE IF score < 40
             THEN /\ alert # NoneV
                  /\ alert.severity = "WARNING" /\ alert.type = "EQUIPMENT_HEALTH_LOW"
                  /\ alert.threshold = 40 /\ alert.value = score
                  /\ alert.source = "predictive_maintenance"
                  /\ alert.equipment_id = last.row.items.equipment_id
             ELSE alert = NoneV
    /\ GateAndDispatch

\* a score of 39 gave a warning that was posted, and 300 s later posted again
HealthScoreAlertsWitness ==
    /\ last.kind = "renotified" /\ last.table = "equipment_health"
    /\ DictGet(last.row.items, "health_score", NoneV) = Num(39)
    /\ last.result.alert # NoneV
    /\ last.result.alert.type = "EQUIPMENT_HEALTH_LOW"
    /\ last.first.passed /\ Answered(last.first.ev, "slack", "200")
    /\ last.second.passed /\ last.second.time = 300
    /\ Answered(last.second.ev, "discord", "204")

\* the reading just analysed was scored (the analysis did not end in its handler)
Scored == last.kind = "analysed" /\ last.analysis.status # "error"

\* hundredths of a point from 0 to 100 points
InRange(x) == x >= 0 /\ x <= 100 * 100

\* C17: the health score analyze_equipment_health returns is
\* 0.25*temperature + 0.25*efficiency + 0.30*trend + 0.20*operational of the
\* four sub-scores it reports, every sub-score is within 0..100, and the score
\* is within 0..100 for every reading, the unknown type and the error result
\* included.
WeightedHealthScore ==
    last.kind = "analysed" =>
        /\ InRange(last.analysis.health_score)
        /\ Scored =>
              /\ 100 * last.analysis.health_score
                    = 25 * last.analysis.temperature_health + 25 * last.analysis.efficiency_health
                      + 30 * last.analysis.trend_health + 20 * last.analysis.operational_health
              /\ InRange(last.analysis.temperature_health)
              /\ InRange(last.analysis.efficiency_health)
              /\ InRange(last.analysis.trend_health)
              /\ InRange(last.analysis.operational_health)

\* an over-temperature boiler: 0.25*30 + 0.25*80 + 0.30*75 + 0.20*80 = 66
WeightedHealthScoreWitness ==
    /\ Scored
    /\ last.equipment_id = Str("boiler-3")
    /\ last.analysis.temperature_health = 3000
    /\ last.analysis.health_score = 6600

\* the critical metrics of the equipment that the reading carries, as numbers
TempsOf(equipment_id, metrics) ==
    CollectTemps(metrics,
        DictGet(DictGet(EQUIPMENT_PARAMETERS, maintenance_determine_equipment_type(equipment_id.s),
                        EmptyDict),
                "critical_metrics", << >>))

\* the reading has an average: it carries a critical metric and all convert
HasAverage(equipment_id, metrics) ==
    /\ equipment_id.t = "str"
    /\ TempsOf(equipment_id, metrics) # << >>
    /\ \A i \in 1..Len(TempsOf(equipment_id, metrics)) : ~TempsOf(equipment_id, metrics)[i].raised

\* C18: with a the average of the critical metrics the reading carries and M
\* the maximum of the category, the temperature sub-score is 100 for
\* a <= 0.8 M, 85 for 0.8 M < a <= 0.9 M, 70 for 0.9 M < a <= M and 30 for
\* a > M; and no reading of the same equipment with an average at least as
\* high has a higher health score.
TemperatureBands ==
    (last.kind = "analysed" /\ HasAverage(last.equipment_id, last.metrics)) =>
        LET temps == TempsOf(last.equipment_id, last.metrics)
            n == Len(temps)
            total == Sum(temps)
            M == MaxTempOf(last.equipment_id.s)
        IN /\ Scored
           /\ last.analysis.temperature_health
                 = 100 * (IF 10 * total <= 8 * M * n THEN 100
                          ELSE IF 10 * total <= 9 * M * n THEN 85
                          ELSE IF total <= M * n THEN 70
                          ELSE 30)
           /\ \A r \in HealthReadings :
                 (/\ r.equipment_id = last.equipment_id
                  /\ HasAverage(r.equipment_id, r.metrics)
                  /\ total * Len(TempsOf(r.equipment_id, r.metrics))
                        <= Sum(TempsOf(r.equipment_id, r.metrics)) * n)
                    => analyze_equipment_health(r.equipment_id, r.metrics, EmptyDict).analysis.health_score
                          <= last.analysis.health_score

\* two metrics of a boiler that average exactly 0.8 * 200
TemperatureBandsWitness ==
    /\ Scored
    /\ last.equipment_id = Str("boiler-3")
    /\ DictGet(last.metrics, "Water_Temp", NoneV) = Num(150)
    /\ DictGet(last.metrics, "temperature", NoneV) = Num(170)
    /\ last.analysis.temperature_health = 10000

\* C19: get_health_status gives excellent for s >= 90, good for 75 <= s < 90,
\* fair for 60 <= s < 75, poor for 40 <= s < 60 and critical for every s < 40,
\* the scores below 20 included.
StatusBuckets ==
    last.kind = "status" =>
        /\ last.status \in {"excellent", "good", "fair", "poor", "critical"}
        /\ last.status = "excellent" <=> last.score >= 9000
        /\ last.status = "good" <=> (last.score >= 7500 /\ last.score < 9000)
        /\ last.status = "fair" <=> (last.score >= 6000 /\ last.score < 7500)
        /\ last.status = "poor" <=> (last.score >= 4000 /\ last.score < 6000)
        /\ last.status = "critical" <=> last.score < 4000
        /\ last.score < 2000 => last.status = "critical"

\* a score of exactly 20 points is critical, as one of 15 is
StatusBucketsWitness ==
    /\ last.kind = "status"
    /\ last.score = 2000
    /\ last.status = "critical"

\* the last n entries of seq
LastOf(seq, n) == SubSeq(seq, Len(seq) - n + 1, Len(seq))

\* C20: the rolling history of every equipment holds at most 100 entries,
\* which are the scores of its most recent scored readings in arrival order,
\* and an analysis leaves the history of every other equipment as it was.
RollingHistory ==
    [][/\ DOMAIN maintenance'.equipment_history = DOMAIN arrivals'
       /\ \A id \in DOMAIN arrivals' :
             /\ Len(maintenance'.equipment_history[id]) <= 100
             /\ maintenance'.equipment_history[id]
                   = LastOf(arrivals'[id], IF Len(arrivals'[id]) < 100 THEN Len(arrivals'[id]) ELSE 100)
       /\ last'.kind = "analysed" =>
             \A id \in DOMAIN maintenance.equipment_history :
                 id # last'.equipment_id =>
                    maintenance'.equipment_history[id] = maintenance.equipment_history[id]]_vars

\* the 101st score of the boiler has pushed out its first, and the single
\* entry of the pump is still there
RollingHistoryWitness ==
    /\ Str("boiler-3") \in DOMAIN arrivals /\ Str("pump-1") \in DOMAIN arrivals
    /\ Len(arrivals[Str("boiler-3")]) = 101
    /\ Len(maintenance.equipment_history[Str("boiler-3")]) = 100
    /\ maintenance.equipment_history[Str("boiler-3")][1] = arrivals[Str("boiler-3")][2]
    /\ maintenance.equipment_history[Str("boiler-3")][100] = arrivals[Str("boiler-3")][101]
    /\ maintenance.equipment_history[Str("pump-1")] = arrivals[Str("pump-1")]
    /\ Len(arrivals[Str("pump-1")]) = 1

\* C21: a metrics reading whose equipment category has no entry in
\* EQUIPMENT_ALERT_THRESHOLDS (geo, unknown) gives no candidate, whatever its
\* temperature: up to the compared default 999 no comparison succeeds, and
\* above it the lookup of the missing threshold fails inside the evaluator,
\* which returns None.
NoThresholdsNoCandidate ==
    (last.kind = "evaluated" /\ last.table = "metrics") =>
        (determine_equipment_type(last.row.items.equipmentId.s) \notin DOMAIN EQUIPMENT_ALERT_THRESHOLDS
            => last.result.alert = NoneV)

\* an equipment of unknown category read above the default 999
NoThresholdsNoCandidateWitness ==
    /\ last.kind = "evaluated" /\ last.table = "metrics"
    /\ determine_equipment_type(last.row.items.equipmentId.s) = "unknown"
    /\ last.row.items.temperature = Num(1000)
    /\ last.result.alert = NoneV

\* both invocations dispatched a candidate of one key, less than one cooldown
\* window apart
DoubleFire ==
    /\ last.kind = "race"
    /\ \A i \in Invocations : last.inv[i].pc = "done" /\ last.inv[i].passed
    /\ last.inv[1].alert_key = last.inv[2].alert_key
    /\ last.inv[1].current_time - last.inv[2].current_time < alert_cooldown_minutes * 60
    /\ last.inv[2].current_time - last.inv[1].current_time < alert_cooldown_minutes * 60

\* C22: the lookup of last_alert_times and its update are separate steps with
\* nothing guarding them, so two invocations whose statements interleave can
\* both dispatch a candidate of one key less than one cooldown window apart;
\* when one invocation returns before the other is made, they never do.
DoubleFireNeedsInterleaving ==
    DoubleFire => last.overlapped

\* two interleaved invocations that both dispatched the same key at one instant
DoubleFireNeedsInterleavingWitness ==
    /\ DoubleFire
    /\ last.overlapped
    /\ last.inv[1].current_time = last.inv[2].current_time

\* C23: the channel calls for one alert are dispatched concurrently: no
\* channel's first attempt starts after an attempt or a retry backoff of a
\* sibling channel has run (the events of a dispatch are in the order in which
\* the blocking calls were made and returned; only the API channel sleeps).
ConcurrentDispatch ==
    Passed =>
        \A i \in 1..Len(last.ev) :
            IsPost(last.ev[i]) =>
                \A j \in 1..(i - 1) :
                    /\ IsSleep(last.ev[j]) => last.ev[i].ch = "api"
                    /\ IsPost(last.ev[j]) => last.ev[j].ch = last.ev[i].ch

\* the equipment ids of the table
MappedEquipment == UNION { DOMAIN LOCATION_CONFIGS[l].equipment_mapping : l \in DOMAIN LOCATION_CONFIGS }

\* C24: every record the dual-run controller hands to the host's write has
\* measurement ProcessingEngineCommands, tag source=javascript-logic, and the
\* id of an equipment of LOCATION_CONFIGS with that equipment's location and
\* type; for an equipment id that is not in LOCATION_CONFIGS nothing is
\* written.
DualRunWritesOnlyCommands ==
    last.kind = "hvac" =>
        /\ \A i \in 1..Len(last.ev) :
              IsWrite(last.ev[i]) =>
                 LET rec == last.ev[i].rec
                 IN /\ rec.measurement = "ProcessingEngineCommands"
                    /\ rec.tags.source = "javascript-logic"
                    /\ rec.tags.equipment_id = last.equipment_id
                    /\ rec.tags.equipment_id \in MappedEquipment
                    /\ rec.tags.location_id \in DOMAIN LOCATION_CONFIGS
                    /\ rec.tags.equipment_id
                          \in DOMAIN LOCATION_CONFIGS[rec.tags.location_id].equipment_mapping
                    /\ rec.tags.equipment_type
                          = LOCATION_CONFIGS[rec.tags.location_id].equipment_mapping[rec.tags.equipment_id]
        /\ last.equipment_id \notin MappedEquipment
              => Positions(last.ev, IsWrite) = {}

\* a mapped air handler for which two commands were written
DualRunWritesOnlyCommandsWitness ==
    /\ last.kind = "hvac"
    /\ last.equipment_id = "2JFzwQkC1XwJhUvm09rE"
    /\ Cardinality(Positions(last.ev, IsWrite)) = 2

\* the forecast peak of the location is above the peak demand limit
AboveLimit ==
    /\ last.kind \in {"energy-strategy", "energy-done"}
    /\ last.demand_forecast.peak_demand_kw > OPTIMIZATION_THRESHOLDS.peak_demand_limit

\* C25: whenever the forecast peak demand of a location exceeds the 500 kW
\* limit, the strategy returned by generate_optimization_strategy has a
\* strategy_type other than none and its commands contain the load_reduction
\* commands of generate_peak_shaving_strategy, and process_writes hands them
\* to implement_optimization_commands.
LoadSheddingRecommended ==
    AboveLimit =>
        /\ last.generated.strategy.strategy_type # "none"
        /\ \A k \in 1..Len(last.generated.shaving) :
              \E j \in 1..Len(last.generated.strategy.commands) :
                  last.generated.strategy.commands[j] = last.generated.shaving[k]
        /\ last.kind = "energy-done" =>
              /\ last.implemented
              /\ \A k \in 1..Len(last.generated.shaving) :
                    \E j \in 1..Len(last.handed) : last.handed[j] = last.generated.shaving[k]

\* the power of a piece of equipment of the breakdown
PowerOf(equipment_breakdown, equipment_id) ==
    (CHOOSE d \in {equipment_breakdown[i] : i \in 1..Len(equipment_breakdown)} :
        d.equipment_id = equipment_id).power_kw

\* C26: the commands of generate_peak_shaving_strategy take the equipment in
\* descending order of power, each piece once; each reduces at most 20% of
\* its equipment's power; a further command is issued only while the
\* reductions so far are below the target (peak demand minus 500 kW) and
\* equipment remains; the reductions add up to at most the target, and to the
\* target exactly when 20% of the total power is at least the target.
GreedyPeakShaving ==
    (last.kind = "energy-strategy" /\ last.generated.needed) =>
        LET breakdown == last.consumption_analysis.equipment_breakdown
            commands == last.generated.shaving
            target == last.demand_forecast.peak_demand_kw - OPTIMIZATION_THRESHOLDS.peak_demand_limit
            reduced(k) == Sum([j \in 1..k |-> Num(commands[j].reduction_amount_kw)])
            total == Sum([i \in 1..Len(breakdown) |-> Num(breakdown[i].power_kw)])
        IN /\ \A k \in 1..Len(commands) :
                 /\ commands[k].command_type = "load_reduction"
                 /\ \E i \in 1..Len(breakdown) : breakdown[i].equipment_id = commands[k].equipment_id
                 /\ \A j \in 1..(k - 1) : commands[j].equipment_id # commands[k].equipment_id
                 /\ \A i \in 1..Len(breakdown) :
                       (\A j \in 1..k : commands[j].equipment_id # breakdown[i].equipment_id)
                          => breakdown[i].power_kw <= PowerOf(breakdown, commands[k].equipment_id)
                 /\ 5 * commands[k].reduction_amount_kw <= PowerOf(breakdown, commands[k].equipment_id)
                 /\ reduced(k - 1) < target
           /\ Len(commands) < Len(breakdown) => reduced(Len(commands)) >= target
           /\ reduced(Len(commands)) <= target
           /\ total >= 5 * target => reduced(Len(commands)) = target

\* a pump listed before five chillers: two chillers shed their full 20%, a
\* third sheds the rest of the target, and the others are left alone
GreedyPeakShavingWitness ==
    /\ last.kind = "energy-strategy" /\ last.generated.needed
    /\ last.consumption_analysis.equipment_breakdown[1].type = "pump"
    /\ Len(last.consumption_analysis.equipment_breakdown) = 6
    /\ Len(last.generated.shaving) = 3
    /\ last.generated.shaving[1].reduction_amount_kw > last.generated.shaving[3].reduction_amount_kw

\* how urgent a priority is
Urgency(priority) ==
    CASE priority = "low" -> 0 [] priority = "medium" -> 1
      [] priority = "high" -> 2 [] priority = "critical" -> 3

\* C27: the failure probability is 5, 15, 35, 60, 85 for a health score
\* >= 85, >= 70, >= 50, >= 30 and below; the priority is low, medium, high,
\* critical (critical from 60% on) and the maintenance interval 90, 30, 7, 3
\* days; and at the score one hundredth higher the probability is not higher,
\* the time to failure and the interval are not shorter, and the priority is
\* not more urgent (so all four are monotone over the scores).
FailureLookupsMonotone ==
    last.kind = "predicted" =>
        LET p == last.failure_prediction
            m == last.maintenance_update
            s == last.score
            above == [health_score |-> s + 1, equipment_type |-> "pump"]
            pa == predict_equipment_failure("pump-1", above)
            ma == update_maintenance_schedule("pump-1", above, pa)
        IN /\ p.failure_probability =
                 (IF s >= 8500 THEN 5 ELSE IF s >= 7000 THEN 15 ELSE IF s >= 5000 THEN 35
                  ELSE IF s >= 3000 THEN 60 ELSE 85)
           /\ p.maintenance_priority =
                 (IF s >= 8500 THEN "low" ELSE IF s >= 7000 THEN "medium"
                  ELSE IF s >= 5000 THEN "high" ELSE "critical")
           /\ m.priority = p.maintenance_priority
           /\ m.next_maintenance_days =
                 (IF s >= 8500 THEN 90 ELSE IF s >= 7000 THEN 30 ELSE IF s >= 5000 THEN 7 ELSE 3)
           /\ pa.failure_probability <= p.failure_probability
           /\ pa.estimated_time_to_failure_days >= p.estimated_time_to_failure_days
           /\ ma.next_maintenance_days >= m.next_maintenance_days
           /\ Urgency(ma.priority) <= Urgency(p.maintenance_priority)

\* just below 50 points: the probability steps from 35 to 60 and the priority
\* from high to critical
FailureLookupsMonotoneWitness ==
    /\ last.kind = "predicted"
    /\ last.score = 4999
    /\ last.failure_prediction.failure_probability = 60
    /\ last.maintenance_update.next_maintenance_days = 3

\* the maintenance_alerts records of the row step just taken
MaintenanceAlerts ==
    Positions(last.ev, LAMBDA e : IsWrite(e) /\ e.rec.measurement = "maintenance_alerts")

\* C28: the health score of every analysed reading is 66, 76, 77.25, 79.75 or
\* 83.5, or 50 when the analysis failed, hence never below the poor threshold
\* 40; predictive maintenance's process_writes therefore never calls
\* generate_maintenance_alert (every call writes, or tries to write, one
\* maintenance_alerts record, and alerts_generated counts the calls).
NoMaintenanceAlerts ==
    last.kind = "maintenance" =>
        /\ last.analysed =>
              /\ last.analysis.health_score \in {5000, 6600, 7600, 7725, 7975, 8350}
              /\ last.analysis.health_score >= 40 * 100
        /\ MaintenanceAlerts = {}

\* a boiler above its maximum operating temperature: the lowest score, 66,
\* and no alert
NoMaintenanceAlertsWitness ==
    /\ last.kind = "maintenance"
    /\ last.analysed
    /\ DictGet(last.row.items, "Water_Temp", NoneV) = Num(201)
    /\ last.analysis.health_score = 6600
    /\ MaintenanceAlerts = {}

\* the locations of the table whose mapping has the equipment id
LocationsOf(equipment_id) ==
    { l \in DOMAIN LOCATION_CONFIGS : equipment_id \in DOMAIN LOCATION_CONFIGS[l].equipment_mapping }

\* C29: no equipment id is in the equipment_mapping of more than one location
\* of LOCATION_CONFIGS, so every record written for a mapped equipment
\* carries the one location whose mapping has it, whatever the order in which
\* identify_equipment goes through the locations.
EquipmentInOneLocation ==
    last.kind = "hvac" =>
        /\ Cardinality(LocationsOf(last.equipment_id)) <= 1
        /\ \A i \in 1..Len(last.ev) :
              IsWrite(last.ev[i]) =>
                 \A l \in LocationsOf(last.equipment_id) : last.ev[i].rec.tags.location_id = l

\* invocation i read the clock no later than invocation j, and both are over
Both(i, j) ==
    /\ i # j
    /\ last.kind = "race"
    /\ last.inv[i].pc = "done" /\ last.inv[j].pc = "done"
    /\ last.inv[i].current_time <= last.inv[j].current_time

\* a passed warning temperature candidate and, later and less than one
\* cooldown window after it, a critical one for the same equipment
CriticalAfterWarning(i, j) ==
    /\ Both(i, j)
    /\ last.inv[i].passed
    /\ last.inv[i].alert.severity = "WARNING" /\ last.inv[j].alert.severity = "CRITICAL"
    /\ last.inv[i].alert.type = "HIGH_TEMPERATURE" /\ last.inv[j].alert.type = "HIGH_TEMPERATURE"
    /\ last.inv[i].alert.equipment_id = last.inv[j].alert.equipment_id
    /\ last.inv[i].current_time < last.inv[j].current_time
    /\ last.inv[j].current_time - last.inv[i].current_time < alert_cooldown_minutes * 60

\* C30: the cooldown key is built from the subject and the kind of a
\* candidate and not from its severity: two candidates of one subject and
\* kind have one key; when a WARNING HIGH_TEMPERATURE candidate has passed the
\* gate and its invocation has returned, a CRITICAL HIGH_TEMPERATURE candidate
\* for the same equipment less than one window later is suppressed and
\* nothing is dispatched for it; a candidate of another subject or another
\* kind is never suppressed by it.
CooldownKeyIgnoresSeverity ==
    \A i, j \in Invocations :
        Both(i, j) =>
            /\ SubjectKind(last.inv[i].alert) = SubjectKind(last.inv[j].alert)
                  <=> last.inv[i].alert_key = last.inv[j].alert_key
            /\ (CriticalAfterWarning(i, j) /\ ~last.overlapped)
                  => /\ ~last.inv[j].passed
                     /\ ~last.inv[j].ret
                     /\ "ev" \notin DOMAIN last.inv[j]
            /\ SubjectKind(last.inv[i].alert) # SubjectKind(last.inv[j].alert)
                  => last.inv[i].passed /\ last.inv[j].passed

\* the boiler's warning passed at time 0 and its critical reading, one second
\* before the window ends, was suppressed
CooldownKeyIgnoresSeverityWitness ==
    /\ CriticalAfterWarning(1, 2)
    /\ ~last.overlapped
    /\ last.inv[1].alert.equipment_id = Str("boiler-3")
    /\ last.inv[2].current_time = alert_cooldown_minutes * 60 - 1
    /\ ~last.inv[2].passed

\* the row step just taken met an exception that nothing below the entry
\* point catches
Escaped == last.kind \in {"maintenance", "hvac", "grouped"} /\ last.raised

\* C5: no call of an entry point ends by raising; an exception that reaches
\* an entry point is logged by it and the call returns to the host.
NeverRaises ==
    /\ pc \in {"idle", "running", "returned"}
    /\ Escaped => (pc = "returned" /\ hostlog # << >>)

\* a row on which row.get raised, and the call returned with the error logged
NeverRaisesWitness ==
    /\ handler = "maintenance"
    /\ Escaped
    /\ pc = "returned"
    /\ hostlog = << ErrorLog("maintenance.process_writes") >>

\* C6: a call returns only after every table batch and every reading handed
\* to it was visited, whatever failed before them.
NoReadingLeftBehind ==
    pc = "returned" => (batchesLeft = 0 /\ rowsLeft = 0)

====
